---- MODULE Spec2Model ----
(***************************************************************************)
(* A model of the macro subsystem of Creator (creator/macro.py,            *)
(* creator/utils.py) and of the workspace / unit contexts that resolve     *)
(* macro names (creator/unit.py).                                          *)
(*                                                                         *)
(* A Python str is modelled as a sequence of one-character strings, so     *)
(* that the scanner, the identifier character class, the escapes and the   *)
(* semicolon-list codec work on characters exactly as the code does.       *)
(* The empty string "" stands for the scanner's end-of-text character.     *)
(***************************************************************************)
EXTENDS Integers, Sequences, FiniteSets, TLC

VARIABLES
  macros,   \* WorkspaceContext.macros: workspace key -> expression node
  aliases,  \* Unit.aliases of every unit: unit id -> (alias -> unit id)
  env,      \* os.environ: name -> value
  hist,     \* the calls made so far, each with what it returned; in the
            \* loader, the identifiers load_unit was called for
  arg,      \* the input of a pure-function run; the sets an export listed
  out,      \* the results of a pure-function run, the record of the latest call
  targets,  \* Unit.targets of every unit, in insertion order
  events,   \* the callbacks the latest call invoked (listeners, on_setup)
  units,    \* Workspace.units: unit identifier -> the state of its script
  loading,  \* the load_unit calls in progress, innermost first
  unit_keys \* the keys of the dict Workspace.units, in the order of the dict

\* The variables of the targets and of the export
build_vars == <<targets, events>>

\* The variables of the loader
load_vars == <<units, loading, unit_keys>>

vars == <<macros, aliases, env, hist, arg, out, targets, events, units,
          loading, unit_keys>>

(***************************************************************************)
(* Strings                                                                 *)
(***************************************************************************)

Letters ==
  {"a","b","c","d","e","f","g","h","i","j","k","l","m",
   "n","o","p","q","r","s","t","u","v","w","x","y","z",
   "A","B","C","D","E","F","G","H","I","J","K","L","M",
   "N","O","P","Q","R","S","T","U","V","W","X","Y","Z"}

Digits == {"0","1","2","3","4","5","6","7","8","9"}

CHARS_WHITESPACE == {" ", "\t", "\n", "\r", "\f"}

CHARS_IDENTIFIER == Letters \cup Digits \cup {"_", ".", "<", "@", ":"}

CHAR_POPEN == "("

CHAR_PCLOSE == ")"

CHAR_BOPEN == "{"

CHAR_BCLOSE == "}"

CHAR_ARGSEP == ","

SetMin(S) == CHOOSE m \in S : \A n \in S : m <= n

SetMax(S) == CHOOSE m \in S : \A n \in S : n <= m

\* str.strip(): leading and trailing whitespace removed.
Strip(s) ==
  LET keep == {i \in 1..Len(s) : s[i] \notin CHARS_WHITESPACE}
  IN  IF keep = {} THEN <<>> ELSE SubSeq(s, SetMin(keep), SetMax(keep))

\* str.startswith(prefix)
StartsWith(s, prefix) ==
  Len(s) >= Len(prefix) /\ SubSeq(s, 1, Len(prefix)) = prefix

\* str.find(sub, start): the lowest 0-based index >= start at which sub
\* occurs, -1 when there is none.
Find(s, sub, start) ==
  LET hits == {i \in start..(Len(s) - Len(sub)) :
                 SubSeq(s, i + 1, i + Len(sub)) = sub}
  IN  IF hits = {} THEN -1 ELSE SetMin(hits)

\* str.replace(old, new) for a non-empty old: left to right, not overlapping.
RECURSIVE Replace(_, _, _)
Replace(s, old, new) ==
  LET i == Find(s, old, 0)
  IN  IF i < 0 THEN s
      ELSE SubSeq(s, 1, i) \o new
             \o Replace(SubSeq(s, i + Len(old) + 1, Len(s)), old, new)

\* ''.join(parts)
RECURSIVE Flatten(_)
Flatten(parts) ==
  IF parts = <<>> THEN <<>> ELSE Head(parts) \o Flatten(Tail(parts))

\* sep.join(parts)
RECURSIVE JoinWith(_, _)
JoinWith(sep, parts) ==
  IF parts = <<>> THEN <<>>
  ELSE IF Len(parts) = 1 THEN parts[1]
  ELSE parts[1] \o sep \o JoinWith(sep, Tail(parts))

(***************************************************************************)
(* creator.utils: the semicolon-list codec                                 *)
(***************************************************************************)

\* The inner loop of split(): skip the semicolons that follow a backslash.
RECURSIVE SplitIndex(_, _)
SplitIndex(text, index) ==
  IF index > 0 /\ (index - 1) = Find(text, <<"\\", ";">>, index - 1)
  THEN SplitIndex(text, Find(text, <<";">>, index + 1))
  ELSE index

RECURSIVE split(_)
split(text) ==
  IF text = <<>> THEN <<>>
  ELSE LET index == SplitIndex(text, Find(text, <<";">>, 0))
           item  == IF index < 0 THEN text ELSE SubSeq(text, 1, index)
           rest  == IF index < 0 THEN <<>>
                    ELSE SubSeq(text, index + 2, Len(text))
           items == IF item # <<>>
                    THEN <<Replace(item, <<"\\", ";">>, <<";">>)>>
                    ELSE <<>>
       IN  items \o split(rest)

join(items) ==
  JoinWith(<<";">>,
           [i \in 1..Len(SelectSeq(items, LAMBDA x : x # <<>>)) |->
              Replace(SelectSeq(items, LAMBDA x : x # <<>>)[i],
                      <<";">>, <<"\\", ";">>)])

\* parse_var(var): (namespace, varname); has_ns is FALSE where the code
\* returns None for the namespace.
parse_var(var) ==
  LET i       == Find(var, <<":">>, 0)
      before  == IF i < 0 THEN var ELSE SubSeq(var, 1, i)
      after   == IF i < 0 THEN <<>> ELSE SubSeq(var, i + 2, Len(var))
  IN  [has_ns    |-> i >= 0,
       namespace |-> IF i < 0 THEN <<>> ELSE IF after = <<>> THEN after ELSE before,
       varname   |-> IF after = <<>> THEN before ELSE after]

\* create_var(namespace, varname) for a namespace that is not None.
create_var(namespace, varname) == namespace \o <<":">> \o varname

(***************************************************************************)
(* The scanner: a text and a 0-based position                              *)
(***************************************************************************)

\* Scanner.char
ScannerChar(text, pos) == IF pos < Len(text) THEN text[pos + 1] ELSE ""

\* Scanner.next(): the position after it
ScannerNext(text, pos) == IF pos < Len(text) THEN pos + 1 ELSE pos

\* Scanner.consume_set(charset): the position after it
ConsumeSet(text, pos, charset) ==
  SetMin({p \in pos..Len(text) : p = Len(text) \/ text[p + 1] \notin charset})

(***************************************************************************)
(* Expression nodes                                                        *)
(***************************************************************************)

TextNode(text) == [type |-> "Text", text |-> text]

ConcatNode(nodes) == [type |-> "Concat", nodes |-> nodes]

VarNode(varname, args, context) ==
  [type |-> "Var", varname |-> varname, args |-> args, context |-> context]

Function(name) == [type |-> "Function", name |-> name]

\* What a lookup or a parse returns where the code returns None or raises
\* KeyError.
None == [type |-> "None"]

\* ConcatNode.append(node), on the node list; a str argument is passed as the
\* TextNode the code makes of it.
\* A merge that puts the appended text in front of the last one.
ConcatAppendMergedInFront(nodes, node) ==
  [nodes EXCEPT ![Len(nodes)] = TextNode(node.text \o nodes[Len(nodes)].text)]

ConcatAppendMerged(nodes, node) ==
  [nodes EXCEPT ![Len(nodes)] = TextNode(nodes[Len(nodes)].text \o node.text)]

ConcatAppend(nodes, node) ==
  IF node.type = "Text" /\ nodes # <<>> /\ nodes[Len(nodes)].type = "Text"
  THEN ConcatAppendMerged(nodes, node)
  ELSE Append(nodes, node)

(***************************************************************************)
(* Parser                                                                  *)
(***************************************************************************)

RECURSIVE ParseArg(_, _, _, _, _)
RECURSIVE ParseMacro(_, _, _)
RECURSIVE ParseCallArgs(_, _, _, _)

\* What follows a '$' in _parse_arg, with the scanner at p1, just after it.
ParseDollar(text, p1, context, closing_at, nodes) ==
  LET m == IF ScannerChar(text, p1) # "$"
           THEN ParseMacro(text, p1, context)
           ELSE [node |-> None, pos |-> p1]
  IN  IF m.node.type # "None"
      THEN ParseArg(text, m.pos, context, closing_at,
                    ConcatAppend(nodes, m.node))
      ELSE ParseArg(text, ScannerNext(text, m.pos), context, closing_at,
                    ConcatAppend(nodes, TextNode(<<"$">>)))

\* Parser._parse_arg: the loop from position pos on, nodes being the root
\* ConcatNode built so far.
ParseArg(text, pos, context, closing_at, nodes) ==
  LET char == ScannerChar(text, pos)
  IN  IF pos >= Len(text) \/ char \in closing_at
      THEN [node |-> ConcatNode(nodes), pos |-> pos]
      ELSE IF char = "$"
      THEN ParseDollar(text, ScannerNext(text, pos), context, closing_at, nodes)
      ELSE IF char = "\\"
      THEN LET p1 == ScannerNext(text, pos)
               c1 == ScannerChar(text, p1)
           IN  IF c1 # ""
               THEN ParseArg(text, ScannerNext(text, p1), context, closing_at,
                             ConcatAppend(nodes, TextNode(<<c1>>)))
               ELSE ParseArg(text, p1, context, closing_at,
                             ConcatAppend(nodes, TextNode(<<"\\">>)))
      ELSE ParseArg(text, ScannerNext(text, pos), context, closing_at,
                    ConcatAppend(nodes, TextNode(<<char>>)))

\* The argument loop of a call in _parse_macro.
ParseCallArgs(text, pos, context, args) ==
  LET char == ScannerChar(text, pos)
  IN  IF char = "" \/ char = CHAR_PCLOSE
      THEN [args |-> args, pos |-> pos]
      ELSE LET r     == ParseArg(text, pos, context,
                                 {CHAR_PCLOSE, CHAR_ARGSEP}, <<>>)
               args2 == Append(args, r.node)
               c     == ScannerChar(text, r.pos)
           IN  IF c = CHAR_ARGSEP
               THEN ParseCallArgs(text,
                      ConsumeSet(text, ScannerNext(text, r.pos), CHARS_WHITESPACE),
                      context, args2)
               ELSE IF c = CHAR_PCLOSE
               THEN [args |-> args2, pos |-> r.pos]
               ELSE ParseCallArgs(text,
                      ConsumeSet(text, r.pos, CHARS_WHITESPACE), context, args2)

\* Parser._parse_macro, the scanner at pos, just after the '$'.
ParseMacro(text, pos, context) ==
  LET cursor    == pos
      is_call   == ScannerChar(text, pos) = CHAR_POPEN
      is_braced == ScannerChar(text, pos) = CHAR_BOPEN
      p1 == IF is_call THEN ScannerNext(text, pos)
            ELSE IF is_braced
            THEN ConsumeSet(text, ScannerNext(text, pos), CHARS_WHITESPACE)
            ELSE pos
      p2 == ConsumeSet(text, p1, CHARS_IDENTIFIER)
      varname == SubSeq(text, p1 + 1, p2)
  IN  IF varname = <<>> THEN [node |-> None, pos |-> p2]
      ELSE IF is_call
      THEN LET a == ParseCallArgs(text, ConsumeSet(text, p2, CHARS_WHITESPACE),
                                  context, <<>>)
           IN  IF ScannerChar(text, a.pos) = CHAR_PCLOSE
               THEN [node |-> VarNode(varname, a.args, context),
                     pos  |-> ScannerNext(text, a.pos)]
               ELSE [node |-> None, pos |-> cursor]
      ELSE IF is_braced
      THEN LET p3 == ConsumeSet(text, p2, CHARS_WHITESPACE)
           IN  IF ScannerChar(text, p3) # CHAR_BCLOSE
               THEN [node |-> None, pos |-> cursor]
               ELSE [node |-> VarNode(varname, <<>>, context),
                     pos  |-> ScannerNext(text, p3)]
      ELSE [node |-> VarNode(varname, <<>>, context), pos |-> p2]

\* Parser.parse(text, context)
parse(text, context) == ParseArg(Strip(text), 0, context, {}, <<>>).node

(***************************************************************************)
(* Contexts                                                                *)
(*                                                                         *)
(* A context is a record naming its kind: the WorkspaceContext, the        *)
(* UnitContext of a unit, a StackFrameContext over the str variables of a  *)
(* host frame, a plain MutableContext over its own macros, or a            *)
(* ChainContext over a list of contexts.                                   *)
(***************************************************************************)

WorkspaceContext == [kind |-> "workspace"]

UnitContext(unit) == [kind |-> "unit", unit |-> unit]

StackFrameContext(frame) == [kind |-> "frame", frame |-> frame]

MutableContext(own) == [kind |-> "mutable", macros |-> own]

ChainContext(contexts) == [kind |-> "chain", contexts |-> contexts]

\* The names of the attributes of creator.macro.Globals: the macro
\* functions, and the attributes every Python class has.
N_addprefix == <<"a","d","d","p","r","e","f","i","x">>

N_addsuffix == <<"a","d","d","s","u","f","f","i","x">>

N_split == <<"s","p","l","i","t">>

N_module == <<"_","_","m","o","d","u","l","e","_","_">>

GlobalsFunctions ==
  {N_addprefix, N_addsuffix, N_split,
   <<"q","u","o","t","e">>, <<"q","u","o","t","e","a","l","l">>,
   <<"q","u","o","t","e","s","p","l","i","t">>, <<"s","u","b","s","t">>,
   <<"w","i","l","d","c","a","r","d">>, <<"s","u","f","f","i","x">>,
   <<"p","r","e","f","i","x">>, <<"m","o","v","e">>, <<"d","i","r">>}

GlobalsAttributes ==
  GlobalsFunctions \cup {N_module, <<"_","_","d","o","c","_","_">>,
                         <<"_","_","d","i","c","t","_","_">>}

\* A lookup that asks the environment before the macro functions.
WorkspaceGetMacroEnvFirst(name) ==
  IF name \in DOMAIN macros THEN macros[name]
  ELSE IF name \in DOMAIN env THEN TextNode(env[name])
  ELSE IF ~StartsWith(name, <<"_">>) /\ name \in GlobalsAttributes
  THEN Function(name)
  ELSE None

\* WorkspaceContext.get_macro(name); None where the code raises KeyError.
WorkspaceGetMacro(name) ==
  IF name \in DOMAIN macros THEN macros[name]
  ELSE IF ~StartsWith(name, <<"_">>) /\ name \in GlobalsAttributes
  THEN Function(name)
  ELSE IF name \in DOMAIN env THEN TextNode(env[name])
  ELSE None

\* A rewriting that leaves a name without a colon unqualified.
PrepareNameBareGlobal(u, name) ==
  LET v == parse_var(name)
  IN  IF v.has_ns /\ v.namespace \in DOMAIN aliases[u]
      THEN create_var(aliases[u][v.namespace], v.varname)
      ELSE IF ~v.has_ns \/ v.namespace = <<>> THEN v.varname
      ELSE create_var(v.namespace, v.varname)

\* A rewriting that does not look the namespace up in the aliases.
PrepareNameNoAlias(u, name) ==
  LET v == parse_var(name)
  IN  IF ~v.has_ns THEN create_var(u, v.varname)
      ELSE IF v.namespace = <<>> THEN v.varname
      ELSE create_var(v.namespace, v.varname)

\* UnitContext._prepare_name(name) in the unit u
_prepare_name(u, name) ==
  LET v == parse_var(name)
  IN  IF v.has_ns /\ v.namespace \in DOMAIN aliases[u]
      THEN create_var(aliases[u][v.namespace], v.varname)
      ELSE IF ~v.has_ns THEN create_var(u, v.varname)
      ELSE IF v.namespace = <<>> THEN v.varname
      ELSE create_var(v.namespace, v.varname)

\* UnitContext.get_macro(name) in the unit u
UnitGetMacro(u, name) ==
  LET m == WorkspaceGetMacro(_prepare_name(u, name))
  IN  IF m.type # "None" THEN m ELSE WorkspaceGetMacro(name)

\* StackFrameContext.get_macro(name): the frame maps the names of its str
\* variables to their values (a variable of another type is a miss).
StackFrameGetMacro(frame, name) ==
  IF name \in DOMAIN frame THEN TextNode(frame[name]) ELSE None

\* MutableContext.get_macro(name) of a plain MutableContext
MutableGetMacro(own, name) ==
  IF name \in DOMAIN own THEN own[name] ELSE None

RECURSIVE get_macro(_, _)
RECURSIVE ChainGetMacro(_, _)

\* ChainContext.get_macro(name): the first context that has the macro
ChainGetMacro(contexts, name) ==
  IF contexts = <<>> THEN None
  ELSE LET m == get_macro(Head(contexts), name)
       IN  IF m.type # "None" THEN m ELSE ChainGetMacro(Tail(contexts), name)

\* context.get_macro(name)
get_macro(context, name) ==
  CASE context.kind = "workspace" -> WorkspaceGetMacro(name)
    [] context.kind = "unit"      -> UnitGetMacro(context.unit, name)
    [] context.kind = "frame"     -> StackFrameGetMacro(context.frame, name)
    [] context.kind = "mutable"   -> MutableGetMacro(context.macros, name)
    [] context.kind = "chain"     -> ChainGetMacro(context.contexts, name)

\* context.get_namespace() of the contexts macros are stored under:
\* UnitContext and WorkspaceContext.
get_namespace(context) ==
  IF context.kind = "unit" THEN context.unit ELSE <<>>

(***************************************************************************)
(* substitute                                                              *)
(***************************************************************************)

RECURSIVE substitute(_, _, _)

\* VarNode.substitute(ref_name, node)
VarSubstitute(self, ref_name, node) ==
  IF ref_name = self.varname THEN node
  ELSE IF ref_name = create_var(get_namespace(self.context), self.varname)
  THEN node
  ELSE [self EXCEPT !.args =
          [i \in 1..Len(self.args) |-> substitute(self.args[i], ref_name, node)]]

\* self.substitute(ref_name, node)
substitute(self, ref_name, node) ==
  CASE self.type = "Var"    -> VarSubstitute(self, ref_name, node)
    [] self.type = "Concat" ->
         ConcatNode([i \in 1..Len(self.nodes) |->
                       substitute(self.nodes[i], ref_name, node)])
    [] OTHER -> self

(***************************************************************************)
(* eval                                                                    *)
(*                                                                         *)
(* An evaluation returns a str or raises; depth is the number of nested    *)
(* eval calls the interpreter still allows before it raises                *)
(* RecursionError.                                                         *)
(***************************************************************************)

Ok(val) == [ok |-> TRUE, val |-> val, err |-> ""]

Raise(err) == [ok |-> FALSE, val |-> <<>>, err |-> err]

\* r.strip() of a result
StripResult(r) == IF r.ok THEN Ok(Strip(r.val)) ELSE r

\* int(varname) for a name of decimal digits, -1 where int() raises
\* ValueError.
RECURSIVE DecimalValue(_)
DecimalValue(s) ==
  IF s = <<>> THEN 0
  ELSE 10 * DecimalValue(SubSeq(s, 1, Len(s) - 1))
         + (CHOOSE d \in 0..9 :
              <<"0","1","2","3","4","5","6","7","8","9">>[d + 1] = s[Len(s)])

\* What int() reads as a decimal number: digits, with single underscores
\* between them.
IsIntLiteral(s) ==
  /\ s # <<>>
  /\ \A i \in 1..Len(s) : s[i] \in Digits \cup {"_"}
  /\ s[1] # "_" /\ s[Len(s)] # "_"
  /\ \A i \in 1..(Len(s) - 1) : ~(s[i] = "_" /\ s[i + 1] = "_")

\* An index that counts the arguments from one.
ArgIndexFromOne(varname) ==
  IF IsIntLiteral(varname)
  THEN DecimalValue(SelectSeq(varname, LAMBDA c : c # "_")) - 1
  ELSE -1

\* VarNode.eval: int(self.varname), -1 where int() raises ValueError
ArgIndex(varname) ==
  IF IsIntLiteral(varname)
  THEN DecimalValue(SelectSeq(varname, LAMBDA c : c # "_"))
  ELSE -1

RECURSIVE EvalNode(_, _, _, _)
RECURSIVE EvalAll(_, _, _, _)

\* [n.eval(context, args) for n in nodes]: the list of results, or the first
\* exception raised.
EvalAll(nodes, context, args, depth) ==
  IF nodes = <<>> THEN Ok(<<>>)
  ELSE LET h == EvalNode(Head(nodes), context, args, depth)
       IN  IF ~h.ok THEN h
           ELSE LET r == EvalAll(Tail(nodes), context, args, depth)
                IN  IF ~r.ok THEN r ELSE Ok(<<h.val>> \o r.val)

\* An addprefix that puts the prefix behind each item.
AddPrefixBehind(context, args, depth) ==
  IF Len(args) # 2 THEN Raise("TypeError")
  ELSE LET a == EvalAll(args, context, <<>>, depth)
       IN  IF ~a.ok THEN a
           ELSE LET items == split(a.val[2])
                IN  Ok(join([i \in 1..Len(items) |-> items[i] \o a.val[1]]))

\* Globals.addprefix(context, args)
addprefix(context, args, depth) ==
  IF Len(args) # 2 THEN Raise("TypeError")
  ELSE LET a == EvalAll(args, context, <<>>, depth)
       IN  IF ~a.ok THEN a
           ELSE LET items == split(a.val[2])
                IN  Ok(join([i \in 1..Len(items) |-> a.val[1] \o items[i]]))

\* Globals.addsuffix(context, args)
addsuffix(context, args, depth) ==
  IF Len(args) # 2 THEN Raise("TypeError")
  ELSE LET a == EvalAll(args, context, <<>>, depth)
       IN  IF ~a.ok THEN a
           ELSE LET items == split(a.val[2])
                IN  Ok(join([i \in 1..Len(items) |-> items[i] \o a.val[1]]))

\* Globals.split(context, args)
GlobalsSplit(context, args, depth) ==
  LET a == EvalAll(args, context, <<>>, depth)
  IN  IF ~a.ok THEN a
      ELSE Ok(JoinWith(<<" ">>,
                split(JoinWith(<<";">>,
                        [i \in 1..Len(a.val) |-> Strip(a.val[i])]))))

\* Function.eval(context, args) for the macro functions of the model; the
\* other attributes of Globals are not evaluated in it.
FunctionEval(self, context, args, depth) ==
  CASE self.name = N_addprefix -> addprefix(context, args, depth)
    [] self.name = N_addsuffix -> addsuffix(context, args, depth)
    [] self.name = N_split     -> GlobalsSplit(context, args, depth)
    [] OTHER                   -> Raise("NotModelled")

\* A miss that lets the KeyError through.
VarEvalMissRaises(self) == Raise("KeyError")

\* VarNode.eval(context, args) when get_macro raises KeyError
VarEvalMiss(self) == Ok(<<>>)

\* VarNode.eval(context, args): the node evaluates in the context it was
\* parsed in.
VarEval(self, args, depth) ==
  LET context == self.context
      sub     == EvalAll(self.args, context, args, depth)
  IN  IF ~sub.ok THEN sub
      ELSE LET sub_args  == [i \in 1..Len(sub.val) |-> TextNode(sub.val[i])]
               arg_index == ArgIndex(self.varname)
           IN  IF arg_index >= 0 /\ arg_index < Len(args)
               THEN StripResult(EvalNode(args[arg_index + 1], context,
                                         sub_args, depth))
               ELSE LET macro == get_macro(context, self.varname)
                    IN  IF macro.type = "None" THEN VarEvalMiss(self)
                        ELSE StripResult(EvalNode(macro, context,
                                                  sub_args, depth))

\* node.eval(context, args)
EvalNode(self, context, args, depth) ==
  IF depth = 0 THEN Raise("RecursionError")
  ELSE CASE self.type = "Text"     -> Ok(self.text)
         [] self.type = "Concat"   ->
              LET r == EvalAll(self.nodes, context, args, depth - 1)
              IN  IF ~r.ok THEN r ELSE Ok(Flatten(r.val))
         [] self.type = "Var"      -> VarEval(self, args, depth - 1)
         [] self.type = "Function" ->
              FunctionEval(self, context, args, depth - 1)

\* The number of nested eval calls allowed (the interpreter's recursion
\* limit, scaled to the model).
MaxDepth == 10

\* Unit.eval(text, supp_context, stack_depth) in the unit u: frame is the
\* host frame stack_depth names, supp the list holding supp_context when
\* there is one.
UnitEvalContext(u, supp, frame) ==
  ChainContext(supp \o <<StackFrameContext(frame), UnitContext(u)>>)

UnitEval(u, text, supp, frame) ==
  EvalNode(parse(text, UnitEvalContext(u, supp, frame)),
           UnitEvalContext(u, supp, frame), <<>>, MaxDepth)

(***************************************************************************)
(* The workspace: two loaded units, U and V                                *)
(***************************************************************************)

U == <<"U">>

V == <<"V">>

Units == {U, V}

N_self == <<"s","e","l","f">>

N_ProjectPath == <<"P","r","o","j","e","c","t","P","a","t","h">>

\* Unit.project_path of a unit
ProjectPath(u) == <<"/">> \o u

\* An assignment that stores the value without inlining the old one.
SetMacroNoInline(name, value) == (name :> value) @@ macros

\* MutableContext.__setitem__(name, value) on the workspace context, for a
\* value that is a node: the macros after it.
SetMacro(name, value) ==
  LET new == IF name \in DOMAIN macros
             THEN substitute(value, name, macros[name])
             ELSE value
  IN  (name :> new) @@ macros

\* The macros WorkspaceContext.__init__ sets.
WorkspaceMacros ==
  (<<"P","l","a","t","f","o","r","m">> :> TextNode(<<"L","i","n","u","x">>))
  @@ (<<"P","l","a","t","f","o","r","m","S","t","a","n","d","a","r","d">>
        :> TextNode(<<"P","o","s","i","x">>))
  @@ (<<"A","r","c","h","i","t","e","c","t","u","r","e">>
        :> TextNode(<<"x","6","4">>))

\* The macros WorkspaceContext.__init__ and the UnitContext.__init__ of every
\* unit set.
InitMacros ==
  WorkspaceMacros
  @@ [k \in {create_var(u, N_self) : u \in Units} |->
        TextNode(parse_var(k).namespace)]
  @@ [k \in {create_var(u, N_ProjectPath) : u \in Units} |->
        TextNode(ProjectPath(parse_var(k).namespace))]

\* Unit.__init__: aliases = {'self': identifier}
InitAliases == [u \in Units |-> (N_self :> u)]

\* Both units are loaded, their scripts have run, and no target is
\* registered yet.
InitUnits == [u \in Units |-> "loaded"]

InitWorkspace ==
  /\ targets = [u \in Units |-> <<>>]
  /\ events = <<>>
  /\ units = InitUnits
  /\ loading = <<>>
  /\ unit_keys = <<U, V>>

\* The process environment of the run.
N_HOME == <<"H","O","M","E">>

Environ ==
  (N_HOME :> <<"/","h">>) @@ (N_split :> <<"e","s">>)
  @@ (N_module :> <<"e","m">>) @@ (<<"_">> :> <<"e","u">>)

(***************************************************************************)
(* The calls a unit script makes                                           *)
(***************************************************************************)

\* The number of calls of a run.
MaxCalls == 2

Call(op, u, name, text, frame, result) ==
  [op |-> op, unit |-> u, name |-> name, text |-> text, frame |-> frame,
   result |-> result]

NoFrame == <<>>

\* Unit.define(name, value) with a str value, in the unit u:
\* UnitContext.__setitem__ parses the value under the unit's context and
\* assigns it to the workspace context under the prepared name.
Define(u, name, text) ==
  /\ Len(hist) < MaxCalls
  /\ macros' = SetMacro(_prepare_name(u, name), parse(text, UnitContext(u)))
  /\ hist' = Append(hist, Call("define", u, name, text, NoFrame, Ok(<<>>)))
  /\ UNCHANGED <<aliases, env, arg, out, build_vars, load_vars>>

\* G[name] = value with a str value: MutableContext.__setitem__ of the
\* workspace context parses the value under the workspace context.
GlobalSet(name, text) ==
  /\ Len(hist) < MaxCalls
  /\ macros' = SetMacro(name, parse(text, WorkspaceContext))
  /\ hist' = Append(hist, Call("G_set", <<>>, name, text, NoFrame, Ok(<<>>)))
  /\ UNCHANGED <<aliases, env, arg, out, build_vars, load_vars>>

\* Unit.load(identifier, alias) in the unit u, for a unit that is loaded
\* already (load_unit returns it at once) and a str alias.
Load(u, identifier, alias) ==
  /\ Len(hist) < MaxCalls
  /\ identifier \in Units
  /\ aliases' = [aliases EXCEPT ![u] = (alias :> identifier) @@ aliases[u]]
  /\ hist' = Append(hist, Call("load", u, alias, identifier, NoFrame, Ok(<<>>)))
  /\ UNCHANGED <<macros, env, arg, out, build_vars, load_vars>>

\* Unit.eval(text) in the unit u, called from a host frame with the str
\* variables frame.
Eval(u, text, frame) ==
  /\ Len(hist) < MaxCalls
  /\ hist' = Append(hist, Call("eval", u, <<>>, text, frame,
                               UnitEval(u, text, <<>>, frame)))
  /\ UNCHANGED <<macros, aliases, env, arg, out, build_vars, load_vars>>

\* What the scripts of the model call with.
N_x == <<"x">>

N_lib == <<"l","i","b">>

PlainTexts == {<<"a">>, <<";","b">>, <<" ">>}

SelfReferences ==
  {<<"$","x">>, <<"$","s","e","l","f",":","x">>, <<"$","U",":","x">>,
   <<"$",":","x">>}

\* The unit and the name of a define
DefineTargets == {<<U, N_x>>, <<U, <<":","x">>>>, <<V, N_x>>}

DefineTexts ==
  PlainTexts
  \cup {<<"$","x">> \o v : v \in PlainTexts}
  \cup {r \o <<";","b">> : r \in SelfReferences}

GlobalNames == {N_x, N_split}

GlobalTexts == {<<"g">>, <<"$","x",";","b">>}

AliasNames == {N_lib}

EvalTexts == {<<"$","x">>, <<"$","q">>}

Frames == {<<>>, (N_x :> <<"f">>)}

Init ==
  /\ macros = InitMacros
  /\ aliases = InitAliases
  /\ env = Environ
  /\ hist = <<>>
  /\ arg = <<>>
  /\ out = <<>>
  /\ InitWorkspace

Next ==
  \/ \E target \in DefineTargets, text \in DefineTexts :
       Define(target[1], target[2], text)
  \/ \E name \in GlobalNames, text \in GlobalTexts : GlobalSet(name, text)
  \/ \E identifier \in Units, alias \in AliasNames :
       Load(U, identifier, alias)
  \/ \E u \in Units, text \in EvalTexts, frame \in Frames :
       Eval(u, text, frame)

Spec == Init /\ [][Next]_vars

\* The last call made, and the one before it.
LastCall == hist[Len(hist)]

PrevCall == hist[Len(hist) - 1]

(***************************************************************************)
(* Properties of the contexts                                              *)
(***************************************************************************)

\* A text without '$' and '\'
IsPlain(v) == \A i \in 1..Len(v) : v[i] \notin {"$", "\\"}

\* A text that neither begins nor ends with whitespace
NoOuterSpace(v) == Strip(v) = v

\* The last two calls were define(x, v1) and define(x, "$x" + v2) in u.
SelfAppendCase(u, v1, v2) ==
  /\ Len(hist) >= 2
  /\ PrevCall = Call("define", u, N_x, v1, NoFrame, Ok(<<>>))
  /\ LastCall = Call("define", u, N_x, <<"$","x">> \o v2, NoFrame, Ok(<<>>))

\* C1 as stated: for any plain texts v1 and v2, after define(x, v1) and
\* define(x, "$x" + v2), evaluating "$x" terminates and yields v1 followed
\* by v2.
C1_AnyPlainTexts ==
  \A u \in Units, v1 \in PlainTexts, v2 \in PlainTexts :
    (IsPlain(v1) /\ IsPlain(v2) /\ SelfAppendCase(u, v1, v2))
      => UnitEval(u, <<"$","x">>, <<>>, NoFrame) = Ok(v1 \o v2)

\* C1, amended: for plain texts v1 and v2 that neither begin nor end with
\* whitespace, v2 not beginning with an identifier character, after
\* define(x, v1) and define(x, "$x" + v2) evaluating "$x" (no host variable
\* x in scope) terminates and yields v1 followed by v2.
C1_SelfReference ==
  \A u \in Units, v1 \in PlainTexts, v2 \in PlainTexts :
    ( /\ IsPlain(v1) /\ IsPlain(v2)
      /\ NoOuterSpace(v1) /\ NoOuterSpace(v2)
      /\ (v2 = <<>> \/ v2[1] \notin CHARS_IDENTIFIER)
      /\ SelfAppendCase(u, v1, v2) )
      => UnitEval(u, <<"$","x">>, <<>>, NoFrame) = Ok(v1 \o v2)

C1_Witness ==
  /\ SelfAppendCase(U, <<"a">>, <<";","b">>)
  /\ UnitEval(U, <<"$","x">>, <<>>, NoFrame) = Ok(<<"a",";","b">>)

\* The VarNodes of an expression tree, those in argument lists included.
RECURSIVE VarNodes(_)
VarNodes(node) ==
  CASE node.type = "Var" ->
         {node} \cup UNION {VarNodes(node.args[i]) : i \in 1..Len(node.args)}
    [] node.type = "Concat" ->
         UNION {VarNodes(node.nodes[i]) : i \in 1..Len(node.nodes)}
    [] OTHER -> {}

\* The workspace key a reference to varname, parsed under a unit or the
\* workspace context, is looked up under.
ResolvedKey(context, varname) ==
  IF context.kind = "unit"
  THEN IF WorkspaceGetMacro(_prepare_name(context.unit, varname)).type # "None"
       THEN _prepare_name(context.unit, varname)
       ELSE varname
  ELSE varname

\* C2: the expression stored for a name holds no variable reference that
\* resolves back to that name, however the reference is written.
C2_NoSelfReference ==
  \A k \in DOMAIN macros :
    \A v \in VarNodes(macros[k]) : ResolvedKey(v.context, v.varname) # k

\* The part of a name before its first colon, and the part after it.
HasColon(name) == \E i \in 1..Len(name) : name[i] = ":"

FirstColon(name) == SetMin({i \in 1..Len(name) : name[i] = ":"})

BeforeColon(name) == SubSeq(name, 1, FirstColon(name) - 1)

AfterColon(name) == SubSeq(name, FirstColon(name) + 1, Len(name))

\* Names without a colon
BareNames == {N_x, N_self, N_ProjectPath, <<"q">>}

\* Looking a bound bare name up in its unit is looking the qualified name up
\* in the workspace.
NamespaceLookup ==
  \A u \in Units, n \in BareNames :
    create_var(u, n) \in DOMAIN macros
      => /\ UnitGetMacro(u, n) = WorkspaceGetMacro(create_var(u, n))
         /\ UnitGetMacro(u, n) = macros[create_var(u, n)]

\* The step changes the macro map at the key k and nowhere else.
WritesOnly(k) ==
  /\ k \in DOMAIN macros'
  /\ DOMAIN macros' = DOMAIN macros \cup {k}
  /\ \A j \in DOMAIN macros \ {k} : macros'[j] = macros[j]

\* C3: for every unit U and bare name N bound in U, looking N up through U's
\* context returns the node the workspace context has for U:N, and a bare
\* assignment in U writes the workspace key U:N and no other.
C3_NamespaceRewrite ==
  /\ []NamespaceLookup
  /\ [][ ( /\ Len(hist') = Len(hist) + 1
           /\ hist'[Len(hist')].op = "define"
           /\ ~HasColon(hist'[Len(hist')].name) )
         => WritesOnly(create_var(hist'[Len(hist')].unit,
                                  hist'[Len(hist')].name)) ]_vars

C3_Witness ==
  /\ Len(hist) > 0
  /\ LastCall.op = "define" /\ LastCall.unit = U /\ LastCall.name = N_x
  /\ create_var(U, N_x) \in DOMAIN macros
  /\ UnitGetMacro(U, N_x) = macros[create_var(U, N_x)]

\* The names looked up: bare, with an empty namespace, with an alias, with a
\* unit identifier, with an unknown namespace, and with nothing after the
\* colon.
RewriteNames ==
  {N_x, <<":","x">>, <<"s","e","l","f",":","x">>, <<"l","i","b",":","x">>,
   <<"U",":","x">>, <<"V",":","x">>, <<"W",":","x">>,
   <<"l","i","b",":","x",":","y">>, <<"l","i","b",":">>, <<":">>}

\* C4: _prepare_name maps a name to its workspace key: a namespace that is a
\* key of unit.aliases is replaced by the alias target, a name without a
\* colon gets the unit's identifier, a name with an empty namespace becomes
\* the unqualified name, and any other namespace is kept as written.  The
\* namespace is the one parse_var reads: the part before the first colon,
\* and the empty one for a name with nothing after its first colon, whose
\* variable is the part before it.
C4_NameRewriting ==
  \A u \in Units, name \in RewriteNames :
    LET key == _prepare_name(u, name)
    IN  IF ~HasColon(name) THEN key = u \o <<":">> \o name
        ELSE IF AfterColon(name) = <<>> THEN key = BeforeColon(name)
        ELSE IF BeforeColon(name) \in DOMAIN aliases[u]
        THEN key = aliases[u][BeforeColon(name)] \o <<":">> \o AfterColon(name)
        ELSE IF BeforeColon(name) = <<>> THEN key = AfterColon(name)
        ELSE key = name

C4_Witness ==
  /\ Len(hist) > 0
  /\ LastCall = Call("load", U, N_lib, V, NoFrame, Ok(<<>>))
  /\ _prepare_name(U, <<"l","i","b",":","x">>) = <<"V",":","x">>
  /\ _prepare_name(U, <<"s","e","l","f",":","x">>) = <<"U",":","x">>
  /\ _prepare_name(U, <<":","x">>) = <<"x">>
  /\ _prepare_name(U, <<"W",":","x">>) = <<"W",":","x">>

\* The names looked up in the workspace context.
LookupNames ==
  {N_x, N_split, N_addprefix, N_module, N_HOME, <<"_">>, <<"q">>,
   <<"U",":","x">>}

IsBuiltin(name) == name \in GlobalsAttributes /\ name[1] # "_"

\* C5: WorkspaceContext.get_macro resolves a name in strict precedence: the
\* macro map, then a builtin function of that name, then an environment
\* variable of that name; a name starting with '_' never resolves to a
\* builtin; when none applies the lookup is a miss.
C5_LookupPrecedence ==
  \A name \in LookupNames :
    LET m == WorkspaceGetMacro(name)
    IN  /\ name \in DOMAIN macros => m = macros[name]
        /\ (name \notin DOMAIN macros /\ IsBuiltin(name)) => m = Function(name)
        /\ (name \notin DOMAIN macros /\ ~IsBuiltin(name)
              /\ name \in DOMAIN env) => m = TextNode(env[name])
        /\ name[1] = "_" => m.type # "Function"
        /\ (name \notin DOMAIN macros /\ ~IsBuiltin(name)
              /\ name \notin DOMAIN env) => m = None

C5_Witness ==
  /\ N_split \in DOMAIN macros /\ N_split \in DOMAIN env
  /\ IsBuiltin(N_split)
  /\ WorkspaceGetMacro(N_split) = macros[N_split]
  /\ WorkspaceGetMacro(N_addprefix) = Function(N_addprefix)
  /\ WorkspaceGetMacro(N_module) = TextNode(env[N_module])

\* The text of a call is one reference, and no context of the chain the call
\* evaluates in resolves it.
UnresolvedReference(c) ==
  LET context == UnitEvalContext(c.unit, <<>>, c.frame)
      root    == parse(c.text, context)
  IN  /\ Len(root.nodes) = 1
      /\ root.nodes[1].type = "Var"
      /\ root.nodes[1].args = <<>>
      /\ get_macro(context, root.nodes[1].varname) = None

\* C8: evaluating a reference to a variable that no context in the lookup
\* chain resolves yields the empty string, raises no error, and leaves the
\* macro map (and the aliases) unchanged.
C8_MacroMiss ==
  [][ \A u \in Units, t \in EvalTexts, f \in Frames :
        ( /\ Len(hist') = Len(hist) + 1
          /\ hist'[Len(hist')].op = "eval"
          /\ hist'[Len(hist')].unit = u
          /\ hist'[Len(hist')].text = t
          /\ hist'[Len(hist')].frame = f
          /\ UnresolvedReference(hist'[Len(hist')]) )
        => /\ hist'[Len(hist')].result = Ok(<<>>)
           /\ macros' = macros
           /\ aliases' = aliases ]_vars

C8_Witness ==
  /\ Len(hist) = 2
  /\ PrevCall.op = "define" /\ PrevCall.unit = V
  /\ LastCall.op = "eval" /\ LastCall.unit = U
  /\ LastCall.text = <<"$","x">> /\ LastCall.frame = NoFrame
  /\ UnresolvedReference(LastCall)
  /\ LastCall.result = Ok(<<>>)

(***************************************************************************)
(* The list codec: join a list, then split the joined text                 *)
(***************************************************************************)

MaxItems == 2

MaxItemLen == 2

ItemChars == {"a", ";", "\\"}

\* The sequences over a set of at most a given length
SeqsUpTo(S, n) == UNION {[1..k -> S] : k \in 0..n}

\* out = utils.join(arg)
Encode ==
  /\ hist = <<>>
  /\ out' = join(arg)
  /\ hist' = <<"join">>
  /\ UNCHANGED <<macros, aliases, env, arg, build_vars, load_vars>>

\* out = utils.split(out)
Decode ==
  /\ hist = <<"join">>
  /\ out' = split(out)
  /\ hist' = <<"join", "split">>
  /\ UNCHANGED <<macros, aliases, env, arg, build_vars, load_vars>>

InitCodec ==
  /\ macros = InitMacros
  /\ aliases = InitAliases
  /\ env = Environ
  /\ hist = <<>>
  /\ arg \in SeqsUpTo(SeqsUpTo(ItemChars, MaxItemLen), MaxItems)
  /\ out = <<>>
  /\ InitWorkspace

NextCodec == Encode \/ Decode

SpecCodec == InitCodec /\ [][NextCodec]_vars

\* A list without its empty items
NonEmptyItems(L) == SelectSeq(L, LAMBDA item : item # <<>>)

\* C6: for every list L of strings over an alphabet that includes ';' and
\* '\', split(join(L)) is L with its empty items removed.
C6_RoundTrip ==
  hist = <<"join", "split">> => out = NonEmptyItems(arg)

(***************************************************************************)
(* Evaluation: a text is evaluated, and its result is evaluated again      *)
(***************************************************************************)

MaxTextLen == 3

MaxListLen == 3

TextChars == {"$", "t", "a", " ", "\\", "{", "}", "("}

ListChars == {"a", "b", ";"}

N_t == <<"t">>

Prefixes == {<<>>, <<"-","I">>, <<" ">>, <<"p">>}

\* The text of a call of addprefix
AddPrefixText(P, L) ==
  <<"$","(">> \o N_addprefix \o <<" ">> \o P \o <<",">> \o L \o <<")">>

AddPrefixTexts ==
  {AddPrefixText(P, L) : P \in Prefixes, L \in SeqsUpTo(ListChars, MaxListLen)}

\* The host variables of the calling frame
EvalFrames == {NoFrame, (N_t :> <<"a">>), (N_t :> <<"\\","$","t">>)}

\* unit.eval(text) in the unit U, from the frame of arg
EvalText ==
  /\ hist = <<>>
  /\ Eval(U, arg.text, arg.frame)

\* unit.eval(result) of the result of the call before, from the same frame
EvalAgain ==
  /\ Len(hist) = 1
  /\ LastCall.result.ok
  /\ Eval(U, LastCall.result.val, arg.frame)

InitEval ==
  /\ macros = InitMacros
  /\ aliases = InitAliases
  /\ env = Environ
  /\ hist = <<>>
  /\ arg \in [text : SeqsUpTo(TextChars, MaxTextLen) \cup AddPrefixTexts,
              frame : EvalFrames]
  /\ out = <<>>
  /\ InitWorkspace

NextEval == EvalText \/ EvalAgain

SpecEval == InitEval /\ [][NextEval]_vars

\* Every macro the text refers to resolves to a Text node in the context the
\* text is evaluated in.
ReferencesAreText(text, frame) ==
  LET context == UnitEvalContext(U, <<>>, frame)
  IN  \A v \in VarNodes(parse(text, context)) :
        get_macro(context, v.varname).type = "Text"

\* The text was evaluated, and its result was evaluated again.
EvaluatedTwice ==
  /\ Len(hist) = 2
  /\ hist[1].text = arg.text
  /\ hist[1].result.ok
  /\ hist[2].text = hist[1].result.val

\* C7 as stated: for every macro text whose referenced macros all resolve
\* to Text nodes, eval(eval(text)) = eval(text) in a fixed context.
C7_AnyText ==
  (EvaluatedTwice /\ ReferencesAreText(arg.text, arg.frame))
    => hist[2].result = hist[1].result

\* C7, amended: for every macro text whose referenced macros all resolve to
\* Text nodes and whose evaluation succeeds with a result that holds no '$'
\* and no '\' and neither begins nor ends with whitespace,
\* eval(eval(text)) = eval(text) in a fixed context.
C7_Idempotent ==
  ( /\ EvaluatedTwice
    /\ ReferencesAreText(arg.text, arg.frame)
    /\ IsPlain(hist[1].result.val)
    /\ NoOuterSpace(hist[1].result.val) )
    => hist[2].result = hist[1].result

C7_Witness ==
  /\ EvaluatedTwice
  /\ arg.text = <<"a","$","t">>
  /\ arg.frame = (N_t :> <<"a">>)
  /\ ReferencesAreText(arg.text, arg.frame)
  /\ hist[1].result = Ok(<<"a","a">>)
  /\ hist[2].result = Ok(<<"a","a">>)

\* The call evaluated $(addprefix P,L).
AddPrefixCase(P, L) ==
  /\ Len(hist) >= 1
  /\ hist[1].text = AddPrefixText(P, L)

IsUnterminated(text) ==
  /\ Len(text) >= 3
  /\ text[1] = "$"
  /\ text[2] \in {"{", "("}
  /\ \A i \in 3..Len(text) : text[i] \in {"t", "a"}

\* C10: when a macro start is not terminated, the parser emits a literal '$'
\* and continues with the character following it, so that no source
\* character is dropped: evaluating "${X" yields "${X".
C10_SourcePreserved ==
  (Len(hist) >= 1 /\ IsUnterminated(hist[1].text))
    => hist[1].result = Ok(hist[1].text)

(***************************************************************************)
(* Calls with arguments: a macro F is defined and called                   *)
(***************************************************************************)

MaxArgs == 2

N_F == <<"F">>

\* The ways F's body refers to an argument, each with the index it names
IndexRefs ==
  {<<(<<"$","0">>), 0>>, <<(<<"$","1">>), 1>>, <<(<<"$","2">>), 2>>,
   <<(<<"$","{","1","}">>), 1>>}

\* The arguments of the call as they are written
ArgTexts == {<<"7">>, <<" ","8"," ">>, <<"$","s","e","l","f">>, <<>>}

\* The names of the macros defined besides F, and their value
IndexNames == {<<"1">>, <<"2">>}

IndexValue == <<"z">>

\* F's body: two references with a '+' between them
BodyText(refs) == refs[1][1] \o <<"+">> \o refs[2][1]

\* The call $(F a0,...,an)
CallText(args) ==
  <<"$","(">> \o N_F \o <<" ">> \o JoinWith(<<",">>, args) \o <<")">>

\* unit.define("F", body)
DefineF ==
  /\ hist = <<>>
  /\ Define(U, N_F, BodyText(arg.refs))

\* unit.eval("$(F a0,...,an)")
CallF ==
  /\ Len(hist) = 1
  /\ Eval(U, CallText(arg.args), NoFrame)

\* The macros after unit.define(name, "z"), from the initial ones
WithIndexMacro(name) ==
  (create_var(U, name) :> parse(IndexValue, UnitContext(U))) @@ InitMacros

InitArgs ==
  /\ macros \in {InitMacros} \cup {WithIndexMacro(name) : name \in IndexNames}
  /\ aliases = InitAliases
  /\ env = Environ
  /\ hist = <<>>
  /\ arg \in [refs : IndexRefs \X IndexRefs,
              args : UNION {[1..k -> ArgTexts] : k \in 1..MaxArgs}]
  /\ out = <<>>
  /\ InitWorkspace

NextArgs == DefineF \/ CallF

SpecArgs == InitArgs /\ [][NextArgs]_vars

\* The value of an argument of the model: its text evaluated and stripped
ArgValue(a) == IF a = <<"$","s","e","l","f">> THEN U ELSE Strip(a)

\* The number of arguments the call passes: an empty last argument is none.
NumArgs(args) ==
  IF Strip(args[Len(args)]) = <<>> THEN Len(args) - 1 ELSE Len(args)

\* What a reference to the argument i yields: the value of the argument, or
\* the value of the macro named i, the empty string if there is none.
IndexRefValue(i) ==
  IF i < NumArgs(arg.args) THEN ArgValue(arg.args[i + 1])
  ELSE IF \E name \in IndexNames :
            ArgIndex(name) = i /\ create_var(U, name) \in DOMAIN macros
  THEN IndexValue
  ELSE <<>>

\* F was defined and the call of it evaluated.
CalledF ==
  /\ Len(hist) = 2
  /\ hist[1] = Call("define", U, N_F, BodyText(arg.refs), NoFrame, Ok(<<>>))
  /\ LastCall.op = "eval"
  /\ LastCall.text = CallText(arg.args)

\* C11: when F is called as $(F a0,...,an), every reference $i in F's body
\* with 0 <= i <= n evaluates to the stripped value of ai, and a reference
\* $i with i > n is resolved as the variable named i: the empty string when
\* no such macro exists.  (The arguments are those the parser reads: an empty
\* last argument is not one.)
C11_PositionalArguments ==
  CalledF =>
    LastCall.result =
      Ok(IndexRefValue(arg.refs[1][2]) \o <<"+">>
           \o IndexRefValue(arg.refs[2][2]))

C11_Witness ==
  /\ CalledF
  /\ create_var(U, <<"2">>) \in DOMAIN macros
  /\ arg.refs = <<(<<(<<"$","0">>), 0>>), (<<(<<"$","1">>), 1>>)>>
  /\ arg.args = <<(<<"7">>), (<<" ","8"," ">>)>>
  /\ LastCall.result = Ok(<<"7","+","8">>)

(***************************************************************************)
(* Paths and identifiers                                                   *)
(***************************************************************************)

\* os.getcwd() of the process
Cwd == <<"/","w">>

\* The parts of a path between its slashes
RECURSIVE PathParts(_)
PathParts(x) ==
  IF x = <<>> THEN <<>>
  ELSE LET i == Find(x, <<"/">>, 0)
       IN  IF i < 0 THEN <<x>>
           ELSE <<SubSeq(x, 1, i)>> \o PathParts(SubSeq(x, i + 2, Len(x)))

\* os.path.normpath of an absolute path, on its parts: '' and '.' are
\* dropped and '..' removes the part before it (none at the root).
RECURSIVE NormParts(_, _)
NormParts(parts, kept) ==
  IF parts = <<>> THEN kept
  ELSE IF Head(parts) \in {<<>>, <<".">>} THEN NormParts(Tail(parts), kept)
  ELSE IF Head(parts) = <<".",".">>
  THEN NormParts(Tail(parts),
                 IF kept = <<>> THEN kept ELSE SubSeq(kept, 1, Len(kept) - 1))
  ELSE NormParts(Tail(parts), Append(kept, Head(parts)))

\* os.path.expanduser(x), for the user of the process
ExpandUser(x) ==
  IF x # <<>> /\ x[1] = "~" /\ (Len(x) = 1 \/ x[2] = "/")
  THEN env[N_HOME] \o Tail(x)
  ELSE x

\* os.path.abspath(x) before it normalises
AbsPath(x) == IF StartsWith(x, <<"/">>) THEN x ELSE Cwd \o <<"/">> \o x

\* creator.utils.normpath(x); two slashes at the start are kept (POSIX).
normpath(x) ==
  LET a     == AbsPath(ExpandUser(x))
      parts == NormParts(PathParts(a), <<>>)
      root  == IF StartsWith(a, <<"/","/">>) /\ ~StartsWith(a, <<"/","/","/">>)
               THEN <<"/","/">> ELSE <<"/">>
  IN  root \o JoinWith(<<"/">>, parts)

\* The characters an identifier of ninja may hold
IdentChars == (Letters \cup Digits) \cup {"_"}

\* An ident that replaces every other character by an underscore of its own.
RECURSIVE IdentEachChar(_)
IdentEachChar(s) ==
  IF s = <<>> THEN <<>>
  ELSE (IF s[1] \in IdentChars THEN <<s[1]>> ELSE <<"_">>)
         \o IdentEachChar(Tail(s))

\* creator.ninja.ident(s): re.sub('[^A-Za-z0-9_]+', '_', s)
RECURSIVE ident(_)
ident(s) ==
  IF s = <<>> THEN <<>>
  ELSE IF s[1] \in IdentChars THEN <<s[1]>> \o ident(Tail(s))
  ELSE IF Len(s) > 1 /\ s[2] \notin IdentChars THEN ident(Tail(s))
  ELSE <<"_">> \o ident(Tail(s))

\* str(n) for n >= 0
RECURSIVE Decimal(_)
Decimal(n) ==
  LET d == <<"0","1","2","3","4","5","6","7","8","9">>[(n % 10) + 1]
  IN  IF n < 10 THEN <<d>> ELSE Decimal(n \div 10) \o <<d>>

\* '{0:04d}'.format(n)
RECURSIVE ZeroPad(_, _)
ZeroPad(s, width) == IF Len(s) >= width THEN s ELSE ZeroPad(<<"0">> \o s, width)

RuleSuffix(index) == <<"_">> \o ZeroPad(Decimal(index), 4)

(***************************************************************************)
(* Targets and tasks                                                       *)
(*                                                                         *)
(* targets[u] is the dict Unit.targets of the unit u in insertion order,   *)
(* a sequence of Target and Task records.  A dependency is a reference to  *)
(* a registered Target, written <<unit, name>>.  An on_setup function is   *)
(* the sequence of the calls it makes on its target.                       *)
(***************************************************************************)

\* Body applied to the value of e, which is computed once: the result of a
\* call that the caller's following statements read several times.
With(e, Body(_)) == CHOOSE result \in {Body(r) : r \in {e}} : TRUE

\* Target(unit, name, on_setup, False)
Target(name, on_setup) ==
  [kind |-> "Target", name |-> name, is_setup |-> FALSE,
   dependencies |-> <<>>, on_setup |-> on_setup, command_data |-> <<>>,
   listeners |-> <<>>]

\* Task(unit, name, func)
Task(name) == [kind |-> "Task", name |-> name]

\* Target.identifier
TargetIdentifier(u, name) == u \o <<":">> \o name

\* name in unit.targets, unit.targets[name], and an update of the object
\* unit.targets[name]
TargetNames(ts, u) == {ts[u][i].name : i \in DOMAIN ts[u]}

TargetIndex(ts, u, name) == CHOOSE i \in DOMAIN ts[u] : ts[u][i].name = name

GetTarget(ts, u, name) == ts[u][TargetIndex(ts, u, name)]

PutTarget(ts, u, name, t) ==
  [ts EXCEPT ![u] = [@ EXCEPT ![TargetIndex(ts, u, name)] = t]]

\* The outcome of a call on a target: the workspace it leaves (targets and
\* the log of listener and on_setup invocations) and the exception it
\* raises, if any.
OpOk(st) == [st |-> st, ok |-> TRUE, err |-> ""]

OpRaise(st, err) == [st |-> st, ok |-> FALSE, err |-> err]

\* A listener of the model records the event it is invoked with; a
\* "header" listener also appends a header file to data['auxiliary'] of a
\* 'build' event.
ListenerKinds == {"observe", "header"}

AuxFile == <<"/", "w", "/", "h">>

\* for listener in self.listeners: listener(self, event, data)
Notify(st, u, name, event) ==
  LET ls == GetTarget(st.targets, u, name).listeners
  IN  [st EXCEPT !.events = @ \o
         [i \in DOMAIN ls |->
            [target |-> TargetIdentifier(u, name), event |-> event]]]

\* data['auxiliary'] after the listeners of a 'build' event have run
ListenerAuxiliary(ls) ==
  [i \in 1..Len(SelectSeq(ls, LAMBDA k : k = "header")) |-> AuxFile]

\* [creator.utils.normpath(f) for f in creator.utils.split(text)]
NormSplit(text) == [i \in DOMAIN split(text) |-> normpath(split(text)[i])]

\* A supp_context with '<' and '@' bound the other way round.
BuildContextSwapped(fin, fout) ==
  MutableContext((<<"<">> :> TextNode(fout)) @@ (<<"@">> :> TextNode(fin)))

\* The supp_context of Target.build with '<' and '@' bound to raw(fin)
\* and raw(fout).
BuildContext(fin, fout) ==
  MutableContext((<<"<">> :> TextNode(fin)) @@ (<<"@">> :> TextNode(fout)))

BuildEntry(inputs, outputs, auxiliary, command) ==
  [inputs |-> inputs, outputs |-> outputs, auxiliary |-> auxiliary,
   command |-> command]

\* self.command_data.append(entry)
AppendEntry(st, u, name, entry) ==
  LET self == GetTarget(st.targets, u, name)
  IN  [st EXCEPT !.targets = PutTarget(st.targets, u, name,
         [self EXCEPT !.command_data = Append(@, entry)])]

\* The loop of Target.build over zip(input_files, output_files), from the
\* pair i on.
RECURSIVE BuildPairs(_, _, _, _, _, _, _, _)
BuildPairs(st, u, name, command, input_files, output_files, auxiliary, i) ==
  IF i > Len(input_files) \/ i > Len(output_files) THEN OpOk(st)
  ELSE With(UnitEval(u, command,
              <<BuildContext(input_files[i], output_files[i])>>, NoFrame),
            LAMBDA c :
         IF ~c.ok THEN OpRaise(st, c.err)
         ELSE With(AppendEntry(st, u, name,
                     BuildEntry(<<input_files[i]>>, <<output_files[i]>>,
                                auxiliary, c.val)),
                   LAMBDA next :
                BuildPairs(next, u, name, command, input_files,
                           output_files, auxiliary, i + 1)))

\* A build that pairs the files as zip does, whatever their numbers.
BuildOpUnchecked(st, u, name, b) ==
  LET fired == Notify(st, u, name, "build")
  IN  BuildPairs(fired, u, name, b.command,
                 NormSplit(UnitEval(u, b.inputs, <<>>, NoFrame).val),
                 NormSplit(UnitEval(u, b.outputs, <<>>, NoFrame).val),
                 ListenerAuxiliary(GetTarget(st.targets, u, name).listeners), 1)

\* Target.build(inputs, outputs, command, each) on the target name of the
\* unit u; b holds the arguments.
BuildOp(st, u, name, b) ==
  LET self      == GetTarget(st.targets, u, name)
      fired     == Notify(st, u, name, "build")
      auxiliary == ListenerAuxiliary(self.listeners)
  IN  With(UnitEval(u, b.inputs, <<>>, NoFrame), LAMBDA ins :
        IF ~ins.ok THEN OpRaise(fired, ins.err)
        ELSE With(UnitEval(u, b.outputs, <<>>, NoFrame), LAMBDA outs :
          IF ~outs.ok THEN OpRaise(fired, outs.err)
          ELSE With(NormSplit(ins.val), LAMBDA input_files :
                 With(NormSplit(outs.val), LAMBDA output_files :
            IF b.each
              THEN IF Len(input_files) # Len(output_files)
                     THEN OpRaise(fired, "ValueError")
                     ELSE BuildPairs(fired, u, name, b.command, input_files,
                                     output_files, auxiliary, 1)
              ELSE With(UnitEval(u, b.command,
                          <<BuildContext(join(input_files),
                                         join(output_files))>>, NoFrame),
                        LAMBDA c :
                IF ~c.ok THEN OpRaise(fired, c.err)
                ELSE OpOk(AppendEntry(fired, u, name,
                       BuildEntry(input_files, output_files, auxiliary,
                                  c.val))))))))

\* The depth of do_setup calls nested through requires that the
\* interpreter allows (its recursion limit, scaled to the model).
MaxSetupDepth == 4

RECURSIVE DoSetupOp(_, _, _, _)
RECURSIVE RequiresOp(_, _, _, _, _)
RECURSIVE RunScript(_, _, _, _, _)

\* A do_setup() that sets a target up whether or not it is set up already.
DoSetupAgain(st, u, name, depth) ==
  LET self  == GetTarget(st.targets, u, name)
      fired == Notify(st, u, name, "do_setup")
      called == [fired EXCEPT !.events = Append(@,
                  [target |-> TargetIdentifier(u, name), event |-> "on_setup"])]
      SetUp(r) ==
        IF ~r.ok THEN r
        ELSE OpOk([r.st EXCEPT !.targets = PutTarget(r.st.targets, u, name,
               [GetTarget(r.st.targets, u, name) EXCEPT !.is_setup = TRUE])])
  IN  IF depth = 0 THEN OpRaise(st, "RecursionError")
      ELSE With(RunScript(called, u, name, self.on_setup, depth), SetUp)

\* Target.do_setup(): at depth 0 the interpreter's recursion limit is
\* reached and the call raises RecursionError.
DoSetupOp(st, u, name, depth) ==
  LET self  == GetTarget(st.targets, u, name)
      fired == Notify(st, u, name, "do_setup")
      called == [fired EXCEPT !.events = Append(@,
                  [target |-> TargetIdentifier(u, name), event |-> "on_setup"])]
      SetUp(r) ==
        IF ~r.ok THEN r
        ELSE OpOk([r.st EXCEPT !.targets = PutTarget(r.st.targets, u, name,
               [GetTarget(r.st.targets, u, name) EXCEPT !.is_setup = TRUE])])
  IN  IF depth = 0 THEN OpRaise(st, "RecursionError")
      ELSE IF self.is_setup THEN OpRaise(st, "RuntimeError")
      ELSE With(RunScript(called, u, name, self.on_setup, depth), SetUp)

\* Unit.get_target(target) of the unit namespace: <<unit, name>> of the
\* entry found, <<>> where the code raises ValueError.
UnitGetTarget(ts, namespace, target) ==
  LET v  == parse_var(target)
      in == IF v.has_ns THEN v.namespace ELSE namespace
  IN  IF in \notin DOMAIN units THEN <<>>
      ELSE IF v.varname \notin TargetNames(ts, in) THEN <<>>
      ELSE <<in, v.varname>>

\* A requires(target) that records the dependency as it finds it.
RequiresOpAsFound(st, u, name, target, depth) ==
  LET v         == parse_var(target)
      namespace == IF v.namespace = <<>> THEN u ELSE v.namespace
      found     == IF namespace \in DOMAIN units
                     THEN UnitGetTarget(st.targets, namespace, v.varname)
                     ELSE <<>>
      dep       == GetTarget(st.targets, found[1], found[2])
  IN  IF found = <<>> THEN OpRaise(st, "ValueError")
      ELSE IF dep.kind = "Task" THEN OpRaise(st, "AttributeError")
      ELSE OpOk([st EXCEPT !.targets = PutTarget(st.targets, u, name,
             [GetTarget(st.targets, u, name)
                EXCEPT !.dependencies = Append(@, found)])])

\* Target.requires(target) with a str target
RequiresOp(st, u, name, target, depth) ==
  LET v         == parse_var(target)
      namespace == IF v.namespace = <<>> THEN u ELSE v.namespace
      found     == IF namespace \in DOMAIN units
                     THEN UnitGetTarget(st.targets, namespace, v.varname)
                     ELSE <<>>
      dep       == GetTarget(st.targets, found[1], found[2])
      Depend(r) ==
        IF ~r.ok THEN r
        ELSE OpOk([r.st EXCEPT !.targets = PutTarget(r.st.targets, u, name,
               [GetTarget(r.st.targets, u, name)
                  EXCEPT !.dependencies = Append(@, found)])])
  IN  IF found = <<>> THEN OpRaise(st, "ValueError")
      ELSE IF dep.kind = "Task" THEN OpRaise(st, "AttributeError")
      ELSE IF dep.is_setup THEN Depend(OpOk(st))
      ELSE With(DoSetupOp(st, found[1], found[2], depth - 1), Depend)

\* The body of an on_setup function: the calls it makes on its target, in
\* order, up to the first that raises.
RunScript(st, u, name, script, depth) ==
  IF script = <<>> THEN OpOk(st)
  ELSE LET call == Head(script)
           Rest(r) ==
             IF r.ok THEN RunScript(r.st, u, name, Tail(script), depth) ELSE r
       IN  With(IF call.op = "build"
                  THEN BuildOp(st, u, name, call)
                  ELSE RequiresOp(st, u, name, call.target, depth),
                Rest)

\* Workspace.setup_targets(), from the entry i of the unit at position k
\* of the units in the order of the dict Workspace.units.
UnitOrder == unit_keys

\* A setup_targets() that sets up the targets of the first unit only.
RECURSIVE SetupTargetsOfFirst(_, _, _)
SetupTargetsOfFirst(st, k, i) ==
  IF k > 1 THEN OpOk(st)
  ELSE IF i > Len(st.targets[UnitOrder[k]]) THEN SetupTargetsOfFirst(st, k + 1, 1)
  ELSE LET target == st.targets[UnitOrder[k]][i]
           Rest(r) == IF r.ok THEN SetupTargetsOfFirst(r.st, k, i + 1) ELSE r
       IN  IF target.kind = "Target" /\ ~target.is_setup
             THEN With(DoSetupOp(st, UnitOrder[k], target.name, MaxSetupDepth),
                       Rest)
             ELSE SetupTargetsOfFirst(st, k, i + 1)

RECURSIVE SetupTargetsFrom(_, _, _)
SetupTargetsFrom(st, k, i) ==
  IF k > Len(UnitOrder) THEN OpOk(st)
  ELSE IF i > Len(st.targets[UnitOrder[k]]) THEN SetupTargetsFrom(st, k + 1, 1)
  ELSE LET target == st.targets[UnitOrder[k]][i]
           Rest(r) == IF r.ok THEN SetupTargetsFrom(r.st, k, i + 1) ELSE r
       IN  IF target.kind = "Target" /\ ~target.is_setup
             THEN With(DoSetupOp(st, UnitOrder[k], target.name, MaxSetupDepth),
                       Rest)
             ELSE SetupTargetsFrom(st, k, i + 1)

\* The record of the latest call: what was called, on which target, with
\* which argument, how it ended and, for an export, the statements written.
CallOn(op, u, name, a, r, statements) ==
  [op |-> op, unit |-> u, name |-> name, arg |-> a, ok |-> r.ok,
   err |-> r.err, statements |-> statements]

NoCall == CallOn("none", <<>>, <<>>, <<>>, [ok |-> TRUE, err |-> ""], <<>>)

\* A call on the workspace whose outcome is r
Outcome(r) ==
  /\ targets' = r.st.targets
  /\ events' = r.st.events
  /\ UNCHANGED <<macros, aliases, env, hist, arg, load_vars>>

\* The workspace before a call, with an empty log
Before == [targets |-> targets, events |-> <<>>]

\* Unit.target(func) in the unit u, for a function named name whose body
\* is on_setup.
RegisterTarget(u, name, on_setup) ==
  LET r == IF name \in TargetNames(targets, u)
             THEN OpRaise(Before, "ValueError")
             ELSE OpOk([Before EXCEPT !.targets[u] =
                          Append(@, Target(name, on_setup))])
  IN  /\ Outcome(r)
      /\ out' = CallOn("target", u, name, on_setup, r, <<>>)

\* A Unit.task that replaces what is registered under the name.
RegisterTaskOver(u, name) ==
  LET r == IF name \in TargetNames(targets, u)
             THEN OpOk([Before EXCEPT !.targets =
                          PutTarget(targets, u, name, Task(name))])
             ELSE OpOk([Before EXCEPT !.targets[u] = Append(@, Task(name))])
  IN  /\ Outcome(r)
      /\ out' = CallOn("task", u, name, <<>>, r, <<>>)

\* Unit.task(func) in the unit u, for a function named name.
RegisterTask(u, name) ==
  LET r == IF name \in TargetNames(targets, u)
             THEN OpRaise(Before, "ValueError")
             ELSE OpOk([Before EXCEPT !.targets[u] = Append(@, Task(name))])
  IN  /\ Outcome(r)
      /\ out' = CallOn("task", u, name, <<>>, r, <<>>)

\* The number of listeners a target is given.
MaxListeners == 1

\* target.listeners.append(listener) on the target name of the unit u
AddListener(u, name, listener) ==
  /\ name \in TargetNames(targets, u)
  /\ GetTarget(targets, u, name).kind = "Target"
  /\ Len(GetTarget(targets, u, name).listeners) < MaxListeners
  /\ Outcome(OpOk([Before EXCEPT !.targets = PutTarget(targets, u, name,
       [GetTarget(targets, u, name) EXCEPT !.listeners = Append(@, listener)])]))
  /\ out' = CallOn("listen", u, name, listener, OpOk(Before), <<>>)

\* Workspace.setup_targets()
SetupTargets ==
  \E r \in {SetupTargetsFrom(Before, 1, 1)} :
    /\ Outcome(r)
    /\ out' = CallOn("setup_targets", <<>>, <<>>, <<>>, r, <<>>)

\* Target.do_setup() on the target name of the unit u
DoSetup(u, name) ==
  /\ name \in TargetNames(targets, u)
  /\ GetTarget(targets, u, name).kind = "Target"
  /\ \E r \in {DoSetupOp(Before, u, name, MaxSetupDepth)} :
       /\ Outcome(r)
       /\ out' = CallOn("do_setup", u, name, <<>>, r, <<>>)

\* The number of entries of a target beyond which the scripts of the model
\* call build no more.
MaxEntries == 2

\* Target.build(inputs, outputs, command, each) on the target name of the
\* unit u, called by a unit script.
Build(u, name, b) ==
  /\ name \in TargetNames(targets, u)
  /\ GetTarget(targets, u, name).kind = "Target"
  /\ Len(GetTarget(targets, u, name).command_data) < MaxEntries
  /\ \E r \in {BuildOp(Before, u, name, b)} :
       /\ Outcome(r)
       /\ out' = CallOn("build", u, name, b, r, <<>>)

\* The statements a ninja_syntax.Writer is asked to write.
Statement(stmt, name, command, outputs, inputs) ==
  [stmt |-> stmt, name |-> name, command |-> command, outputs |-> outputs,
   inputs |-> inputs]

WriterComment(text) == Statement("comment", text, <<>>, <<>>, <<>>)

WriterRule(name, command) == Statement("rule", name, command, <<>>, <<>>)

WriterBuild(outputs, rule, inputs) ==
  Statement("build", rule, <<>>, outputs, inputs)

N_phony == <<"p", "h", "o", "n", "y">>

\* The lists list(s) can return for a set s of str: the order of a set of
\* str follows the hashes of its items, which differ from one run of the
\* interpreter to the next.
ListOfSet(s) ==
  {p \in [1..Cardinality(s) -> s] :
     \A i, j \in 1..Cardinality(s) : p[i] = p[j] => i = j}

\* set(map(creator.utils.normpath, entry['outputs'])) over the entries of
\* the dependencies of a target
RECURSIVE EntryOutputs(_)
EntryOutputs(command_data) ==
  IF command_data = <<>> THEN {}
  ELSE {normpath(Head(command_data).outputs[i]) :
          i \in DOMAIN Head(command_data).outputs}
       \cup EntryOutputs(Tail(command_data))

RECURSIVE DependencyOutputs(_, _)
DependencyOutputs(ts, dependencies) ==
  IF dependencies = <<>> THEN {}
  ELSE EntryOutputs(
         GetTarget(ts, Head(dependencies)[1], Head(dependencies)[2]).command_data)
       \cup DependencyOutputs(ts, Tail(dependencies))

\* The loop of Target.export over enumerate(self.command_data), from the
\* entry of the 0-based index on; written is what the writer holds.
RECURSIVE ExportEntries(_, _, _, _, _, _)
ExportEntries(self, id, infiles, index, phonies, written) ==
  IF index >= Len(self.command_data)
    THEN [ok |-> TRUE, err |-> "",
          statements |-> Append(written,
            WriterBuild(<<ident(id)>>, N_phony, phonies))]
    ELSE LET entry     == self.command_data[index + 1]
             rule_name == ident(id \o RuleSuffix(index))
             ruled     == Append(written, WriterRule(rule_name, entry.command))
             inputs    == entry.inputs \o infiles \o entry.auxiliary
         IN  IF entry.outputs = <<>>
               THEN [ok |-> FALSE, err |-> "AssertionError",
                     statements |-> ruled]
               ELSE ExportEntries(self, id, infiles, index + 1,
                      phonies \o entry.outputs,
                      Append(ruled,
                        WriterBuild(entry.outputs, rule_name, inputs)))

\* Target.export(writer) on the target name of the unit u, with infiles
\* the list made of the set of the outputs of the dependencies.
ExportWith(ts, u, name, infiles) ==
  LET self == GetTarget(ts, u, name)
      id   == TargetIdentifier(u, name)
  IN  IF ~self.is_setup
        THEN [ok |-> FALSE, err |-> "RuntimeError", statements |-> <<>>]
      ELSE IF \E i \in DOMAIN self.dependencies :
                ~GetTarget(ts, self.dependencies[i][1],
                           self.dependencies[i][2]).is_setup
        THEN [ok |-> FALSE, err |-> "RuntimeError",
              statements |-> <<WriterComment(<<"Target: ">> \o id)>>]
      ELSE ExportEntries(self, id, infiles, 0, <<>>,
                         <<WriterComment(<<"Target: ">> \o id)>>)

\* Every outcome Target.export(writer) can have on a new writer, over all
\* runs of the interpreter.
ExportOutcomes(ts, u, name) ==
  {ExportWith(ts, u, name, infiles) :
     infiles \in ListOfSet(
       DependencyOutputs(ts, GetTarget(ts, u, name).dependencies))}

\* The export reaches infiles = list(infiles): the target and its
\* dependencies are set up.
ExportLists(ts, u, name) ==
  /\ GetTarget(ts, u, name).is_setup
  /\ \A i \in DOMAIN GetTarget(ts, u, name).dependencies :
       GetTarget(ts, GetTarget(ts, u, name).dependencies[i][1],
                 GetTarget(ts, u, name).dependencies[i][2]).is_setup

\* The lists list(s) can return in this run of the interpreter, in which
\* the sets of listed hold the order they were listed in: the hashes of
\* the strings are those of the run, so a set made of the same items in
\* the same way is listed in the same order again.
ListOfSetAgain(listed, s) ==
  IF s \in DOMAIN listed THEN {listed[s]} ELSE ListOfSet(s)

\* An export that takes the outputs away from the entries it has written.
ExportConsuming(u, name) ==
  /\ name \in TargetNames(targets, u)
  /\ GetTarget(targets, u, name).kind = "Target"
  /\ \E infiles \in ListOfSetAgain(arg,
         DependencyOutputs(targets, GetTarget(targets, u, name).dependencies)) :
       \E r \in {ExportWith(targets, u, name, infiles)} :
         /\ out' = CallOn("export", u, name, <<>>, r, r.statements)
         /\ arg' = IF ExportLists(targets, u, name) /\ Len(infiles) > 1
                     THEN ({infiles[i] : i \in DOMAIN infiles} :> infiles) @@ arg
                     ELSE arg
         /\ targets' = PutTarget(targets, u, name,
              [GetTarget(targets, u, name) EXCEPT !.command_data =
                 [k \in DOMAIN @ |-> [@[k] EXCEPT !.outputs = <<>>]]])
         /\ events' = <<>>
         /\ UNCHANGED <<macros, aliases, env, hist, load_vars>>

\* Target.export(writer) on the target name of the unit u, with a new
\* writer; arg holds the sets that exports of this run have listed.
Export(u, name) ==
  /\ name \in TargetNames(targets, u)
  /\ GetTarget(targets, u, name).kind = "Target"
  /\ \E infiles \in ListOfSetAgain(arg,
         DependencyOutputs(targets, GetTarget(targets, u, name).dependencies)) :
       \E r \in {ExportWith(targets, u, name, infiles)} :
         /\ out' = CallOn("export", u, name, <<>>, r, r.statements)
         /\ arg' = IF ExportLists(targets, u, name) /\ Len(infiles) > 1
                     THEN ({infiles[i] : i \in DOMAIN infiles} :> infiles) @@ arg
                     ELSE arg
         /\ targets' = targets
         /\ events' = <<>>
         /\ UNCHANGED <<macros, aliases, env, hist, load_vars>>

\* The names and the bodies of the functions the unit scripts of the model
\* register, the listeners they add and the builds they ask for.
N_a == <<"a">>

N_b == <<"b">>

N_d == <<"-", "d">>

BuildCall(inputs, outputs, command, each) ==
  [op |-> "build", inputs |-> inputs, outputs |-> outputs,
   command |-> command, each |-> each, target |-> <<>>]

RequiresCall(target) ==
  [op |-> "requires", inputs |-> <<>>, outputs |-> <<>>, command |-> <<>>,
   each |-> FALSE, target |-> target]

C_each == <<"c", " ", "$", "<", " ", "$", "@">>

S_a == <<BuildCall(<<"p", ";", "q">>, <<"r", ";", "s">>, C_each, TRUE)>>

S_b ==
  <<RequiresCall(<<"a">>), RequiresCall(<<"U", ":", "a">>),
    BuildCall(<<"r", ";", "t">>, <<"u">>, <<"l", " ", "$", "<">>, FALSE)>>

S_d ==
  <<RequiresCall(<<"U", ":", "a">>),
    BuildCall(<<"x", ";", "y">>, <<"z", ";", "w">>, <<"k", " ", "$", "<">>,
              TRUE)>>

\* What the unit scripts of the model register, listen to and build.
TargetFunctions == {<<U, N_a, S_a>>, <<U, N_b, S_b>>}

TaskFunctions == {<<U, N_a>>, <<U, N_b>>}

Listeners == {<<U, N_a, "observe">>, <<U, N_b, "header">>}

BuildCalls ==
  {BuildCall(<<"p", ";", "q">>, <<"r">>, C_each, FALSE),
   BuildCall(<<"p", ";", "q">>, <<"r", ";", "s">>, C_each, TRUE),
   BuildCall(<<"p", ";", "q">>, <<"r">>, C_each, TRUE),
   BuildCall(<<"p">>, <<>>, <<"c">>, FALSE)}

BuildTargets == {<<U, N_a>>}

InitTargets ==
  /\ macros = InitMacros
  /\ aliases = InitAliases
  /\ env = Environ
  /\ hist = <<>>
  /\ arg = <<>>
  /\ out = NoCall
  /\ InitWorkspace

NextTargets ==
  \/ \E f \in TargetFunctions : RegisterTarget(f[1], f[2], f[3])
  \/ \E f \in TaskFunctions : RegisterTask(f[1], f[2])
  \/ \E l \in Listeners : AddListener(l[1], l[2], l[3])
  \/ SetupTargets
  \/ \E u \in Units : \E name \in TargetNames(targets, u) : DoSetup(u, name)
  \/ \E t \in BuildTargets : \E b \in BuildCalls : Build(t[1], t[2], b)

SpecTargets == InitTargets /\ [][NextTargets]_vars

\* What the unit scripts of the exported workspaces register, listen to
\* and build.
ExportedFunctions == {<<U, N_a, S_a>>, <<U, N_b, S_b>>, <<V, N_d, S_d>>}

ExportedListeners == {<<U, N_b, "header">>}

ExportedBuilds ==
  {BuildCall(<<"p", ";", "q">>, <<"r">>, C_each, FALSE),
   BuildCall(<<"p">>, <<>>, <<"c">>, FALSE)}

NextExport ==
  \/ \E f \in ExportedFunctions : RegisterTarget(f[1], f[2], f[3])
  \/ \E l \in ExportedListeners : AddListener(l[1], l[2], l[3])
  \/ \E t \in BuildTargets : \E b \in ExportedBuilds : Build(t[1], t[2], b)
  \/ SetupTargets
  \/ \E u \in Units : \E name \in TargetNames(targets, u) : Export(u, name)

SpecExport == InitTargets /\ [][NextExport]_vars

(***************************************************************************)
(* Claims about the targets, under SpecTargets                             *)
(***************************************************************************)

\* The registered Targets, as <<unit, position in unit.targets>>
TargetSlots(ts) ==
  UNION {{<<u, i>> : i \in {j \in DOMAIN ts[u] : ts[u][j].kind = "Target"}} :
           u \in Units}

\* The step is a call of do_setup() on a target that is set up.
SetupOfSetUp ==
  /\ out'.op = "do_setup"
  /\ GetTarget(targets, out'.unit, out'.name).is_setup

\* C12: a target that is set up stays set up in every step, and do_setup()
\* on a target that is set up raises an error, invokes no listener and no
\* on_setup function, and leaves every target, its command_data and its
\* dependencies included, as it was.
C12_SetupIsTerminal ==
  [][/\ \A s \in TargetSlots(targets) :
          targets[s[1]][s[2]].is_setup =>
            /\ s \in TargetSlots(targets')
            /\ targets'[s[1]][s[2]].is_setup
     /\ SetupOfSetUp =>
          /\ ~out'.ok
          /\ events' = <<>>
          /\ targets' = targets]_vars

\* do_setup() has been called on a target that is set up, has a listener
\* and has build entries, and has raised RuntimeError.
C12_Witness ==
  /\ out.op = "do_setup"
  /\ out.err = "RuntimeError"
  /\ GetTarget(targets, out.unit, out.name).is_setup
  /\ GetTarget(targets, out.unit, out.name).listeners # <<>>
  /\ GetTarget(targets, out.unit, out.name).command_data # <<>>

\* The step is a build call with the given each that returned.
BuildReturned(each) ==
  /\ out'.op = "build"
  /\ out'.ok
  /\ out'.arg.each = each

\* The file lists a build call evaluates.
BuildInputs(c) == NormSplit(UnitEval(c.unit, c.arg.inputs, <<>>, NoFrame).val)

BuildOutputs(c) == NormSplit(UnitEval(c.unit, c.arg.outputs, <<>>, NoFrame).val)

\* The command of a build call evaluated with $< bound to fin and $@ to
\* fout.
BuildCommand(c, fin, fout) ==
  UnitEval(c.unit, c.arg.command,
           <<MutableContext((<<"<">> :> TextNode(fin)) @@
                            (<<"@">> :> TextNode(fout)))>>, NoFrame).val

SpaceJoined(items) == JoinWith(<<" ">>, items)

SemicolonJoined(items) == join(items)

\* A build step with each=False appends one entry to the command_data of
\* its target and nothing else: the entry holds every input and every
\* output, and its command has $< and $@ bound to the lists joined by
\* Joined.
AppendsOneEntry(Joined(_)) ==
  LET c      == out'
      before == GetTarget(targets, c.unit, c.name)
      after  == GetTarget(targets', c.unit, c.name)
      entry  == after.command_data[Len(after.command_data)]
  IN  BuildReturned(FALSE) =>
        /\ Len(after.command_data) = Len(before.command_data) + 1
        /\ targets = PutTarget(targets', c.unit, c.name, before)
        /\ after = [before EXCEPT !.command_data = Append(@, entry)]
        /\ entry.inputs = BuildInputs(c)
        /\ entry.outputs = BuildOutputs(c)
        /\ entry.command =
             BuildCommand(c, Joined(BuildInputs(c)), Joined(BuildOutputs(c)))

\* C13 as stated: a build with each=false appends exactly one entry holding
\* all evaluated inputs and outputs, its command evaluated with $< and $@
\* bound to the inputs and the outputs joined by single spaces.
C13_SpaceJoined == [][AppendsOneEntry(SpaceJoined)]_vars

\* C13: a build with each=false that returns appends exactly one entry
\* holding all evaluated, normalised inputs and outputs, its command
\* evaluated with $< and $@ bound to creator.utils.join of the inputs and
\* of the outputs, which separates the items by ';'.
C13_SemicolonJoined == [][AppendsOneEntry(SemicolonJoined)]_vars

\* A build with each=False and two inputs has returned.
C13_Witness ==
  /\ out.op = "build"
  /\ out.ok
  /\ ~out.arg.each
  /\ Len(BuildInputs(out)) = 2
  /\ GetTarget(targets, out.unit, out.name).command_data # <<>>

\* The entries a build call with each=True appends for its pairs
PairEntries(c, auxiliary) ==
  [i \in DOMAIN BuildInputs(c) |->
     BuildEntry(<<BuildInputs(c)[i]>>, <<BuildOutputs(c)[i]>>, auxiliary,
                BuildCommand(c, BuildInputs(c)[i], BuildOutputs(c)[i]))]

\* C14: a build with each=true whose evaluated input and output lists
\* differ in length raises an error and leaves command_data of every target
\* unchanged; one whose lists have the same length appends one entry per
\* (input, output) pair, in list order, each with that input, that output,
\* and the command evaluated with $< and $@ bound to the pair.
C14_BuildEach ==
  [][LET c      == out'
         before == GetTarget(targets, c.unit, c.name)
         after  == GetTarget(targets', c.unit, c.name)
     IN  (c.op = "build" /\ c.arg.each) =>
           IF Len(BuildInputs(c)) # Len(BuildOutputs(c))
             THEN ~c.ok /\ targets' = targets
             ELSE /\ c.ok
                  /\ targets = PutTarget(targets', c.unit, c.name, before)
                  /\ after = [before EXCEPT !.command_data =
                       @ \o PairEntries(c, ListenerAuxiliary(before.listeners))]]_vars

\* A build with each=True, two inputs and one output has raised ValueError
\* on a target that has entries.
C14_Witness ==
  /\ out.op = "build"
  /\ out.arg.each
  /\ out.err = "ValueError"
  /\ Len(BuildInputs(out)) = 2
  /\ Len(BuildOutputs(out)) = 1
  /\ GetTarget(targets, out.unit, out.name).command_data # <<>>

\* No two entries of unit.targets have the same name.
UniqueNames ==
  \A u \in Units : \A i, j \in DOMAIN targets[u] :
    targets[u][i].name = targets[u][j].name => i = j

\* The step is a call of Unit.target or Unit.task for a name that is a key
\* of unit.targets.
RegistersTakenName ==
  /\ out'.op \in {"target", "task"}
  /\ out'.name \in TargetNames(targets, out'.unit)

\* C17: registering a target or a task under a name that is a key of
\* unit.targets, held by a target or by a task, raises an error and leaves
\* unit.targets unchanged; the names in unit.targets are unique, and in
\* every step every entry stays under its name with its kind and its
\* function.
C17_NameCollision ==
  /\ []UniqueNames
  /\ [][/\ RegistersTakenName => ~out'.ok /\ targets' = targets
        /\ \A u \in Units : \A i \in DOMAIN targets[u] :
             /\ i \in DOMAIN targets'[u]
             /\ targets'[u][i].name = targets[u][i].name
             /\ targets'[u][i].kind = targets[u][i].kind
             /\ targets[u][i].kind = "Target" =>
                  targets'[u][i].on_setup = targets[u][i].on_setup]_vars

\* Unit.task has raised ValueError for a name that a Target holds, in a
\* unit with two entries.
C17_Witness ==
  /\ out.op = "task"
  /\ out.err = "ValueError"
  /\ GetTarget(targets, out.unit, out.name).kind = "Target"
  /\ Len(targets[out.unit]) = 2

(***************************************************************************)
(* Claims about the export, under SpecExport                               *)
(***************************************************************************)

\* The latest call is an export of a target; what it wrote and how it
\* ended.
Exported == out.op = "export"

ExportOutcome ==
  [ok |-> out.ok, err |-> out.err, statements |-> out.statements]

\* C18: the statements an export writes, the order of the input paths of
\* every build edge included, are determined by the state of the
\* workspace: no other outcome is possible for the target in this state.
C18_Deterministic ==
  Exported => ExportOutcomes(targets, out.unit, out.name) = {ExportOutcome}

\* The build edges of the entries among the statements written (the phony
\* edge is not one of them).
EntryEdges(statements) ==
  SelectSeq(statements, LAMBDA s : s.stmt = "build" /\ s.name # N_phony)

\* The number of times the path o is in the list
Occurrences(list, o) == Cardinality({i \in DOMAIN list : list[i] = o})

\* C19: after an export of a target T that returned, every output of every
\* entry of every dependency of T is exactly once in the inputs of every
\* build edge written for T.
C19_FanInOnce ==
  (Exported /\ out.ok) =>
    \A o \in DependencyOutputs(targets,
               GetTarget(targets, out.unit, out.name).dependencies) :
      \A k \in DOMAIN EntryEdges(out.statements) :
        Occurrences(EntryEdges(out.statements)[k].inputs, o) = 1

\* s with every maximal run of characters outside [A-Za-z0-9_] replaced by
\* one '_': the characters of s that are in the class or begin a run, in
\* order, those that begin a run as '_'.
RunStarts(s) ==
  {i \in DOMAIN s : s[i] \in IdentChars \/ i = 1 \/ s[i - 1] \in IdentChars}

RunsReplaced(s) ==
  [k \in 1..Cardinality(RunStarts(s)) |->
     LET i == CHOOSE i \in RunStarts(s) :
                Cardinality({j \in RunStarts(s) : j < i}) = k - 1
     IN  IF s[i] \in IdentChars THEN s[i] ELSE "_"]

\* i in decimal, padded with zeros in front to at least four digits
FourDigits(i) ==
  LET d == Decimal(i)
  IN  [k \in 1..(4 - Len(d)) |-> "0"] \o d

\* The outputs of the entries from the first to the n-th, in entry order
RECURSIVE OutputsUpTo(_, _)
OutputsUpTo(command_data, n) ==
  IF n = 0 THEN <<>>
  ELSE OutputsUpTo(command_data, n - 1) \o command_data[n].outputs

\* The statements written by an export of a target with identifier ID name
\* the rule of the i-th entry (i from 0) Ident(ID + "_" + FourDigits(i))
\* and build the outputs of the entry by that rule; an export that
\* returned has written the rules of all entries and, last, its one phony
\* edge, named Ident(ID), whose inputs are the outputs of all entries in
\* entry order.
RuleNames(Ident(_)) ==
  LET self   == GetTarget(targets, out.unit, out.name)
      id     == TargetIdentifier(out.unit, out.name)
      rules  == SelectSeq(out.statements, LAMBDA s : s.stmt = "rule")
      edges  == EntryEdges(out.statements)
      phony  == SelectSeq(out.statements,
                          LAMBDA s : s.stmt = "build" /\ s.name = N_phony)
  IN  Exported =>
        /\ \A k \in DOMAIN rules :
             /\ rules[k].name = Ident(id \o <<"_">> \o FourDigits(k - 1))
             /\ rules[k].command = self.command_data[k].command
        /\ \A k \in DOMAIN edges :
             /\ edges[k].name = Ident(id \o <<"_">> \o FourDigits(k - 1))
             /\ edges[k].outputs = self.command_data[k].outputs
        /\ out.ok =>
             /\ Len(rules) = Len(self.command_data)
             /\ Len(edges) = Len(self.command_data)
             /\ Len(phony) = 1
             /\ out.statements[Len(out.statements)] = phony[1]
             /\ phony[1].outputs = <<Ident(id)>>
             /\ phony[1].inputs =
                  OutputsUpTo(self.command_data, Len(self.command_data))

X == <<"X">>

W == <<"W">>

\* The identifiers for which find_unit finds a file
UnitFiles == {U, V, W}

\* The statements of the unit scripts of the model: load(identifier),
\* alone or inside try/except Exception, and raise.
LoadStatement(identifier, caught) ==
  [op |-> "load", identifier |-> identifier, caught |-> caught]

RaiseStatement == [op |-> "raise", identifier |-> <<>>, caught |-> FALSE]

ScriptsOfU ==
  {<<>>,
   <<LoadStatement(V, FALSE)>>,
   <<LoadStatement(V, TRUE)>>,
   <<LoadStatement(V, FALSE), RaiseStatement>>,
   <<LoadStatement(X, FALSE)>>,
   <<LoadStatement(X, TRUE), LoadStatement(V, FALSE)>>}

ScriptsOfV ==
  {<<>>,
   <<LoadStatement(U, FALSE)>>,
   <<RaiseStatement>>,
   <<LoadStatement(U, FALSE), RaiseStatement>>}

ScriptsOfW == {<<>>}

Frame(unit, pc) == [unit |-> unit, pc |-> pc]

\* The state of the loader after a step: the stack, the units map, the
\* identifiers whose load_unit call raised in the step, the identifier
\* registered in the step, if any, and whether an exception has left the
\* call of the main program.
Loader(stack, us, failed, registered, raised) ==
  [loading |-> stack, units |-> us, failed |-> failed,
   registered |-> registered, raised |-> raised]

\* The caller goes on with the statement after its load.
Resume(stack) ==
  IF stack = <<>> THEN stack
  ELSE <<Frame(Head(stack).unit, Head(stack).pc + 1)>> \o Tail(stack)

\* del self.units[identifier]
DelUnit(us, identifier) == [k \in DOMAIN us \ {identifier} |-> us[k]]

\* A raise that leaves the units map as it is.
RECURSIVE PropagateKeeping(_, _, _)
PropagateKeeping(stack, us, failed) ==
  IF stack = <<>> THEN Loader(stack, us, failed, <<>>, TRUE)
  ELSE IF arg[Head(stack).unit][Head(stack).pc].caught
    THEN Loader(Resume(stack), us, failed, <<>>, FALSE)
  ELSE PropagateKeeping(Tail(stack), us, Append(failed, Head(stack).unit))

\* An exception leaves a load_unit call made by the script on top of the
\* stack (by the main program when the stack is empty): a try/except
\* around the load catches it; otherwise the script ends with it, and the
\* load_unit that runs the script removes the unit and raises it again.
RECURSIVE Propagate(_, _, _)
Propagate(stack, us, failed) ==
  IF stack = <<>> THEN Loader(stack, us, failed, <<>>, TRUE)
  ELSE IF arg[Head(stack).unit][Head(stack).pc].caught
    THEN Loader(Resume(stack), us, failed, <<>>, FALSE)
  ELSE Propagate(Tail(stack), DelUnit(us, Head(stack).unit),
                 Append(failed, Head(stack).unit))

\* An identifier counts as registered only once its script has ended.
InUnitsAndLoaded(identifier) ==
  identifier \in DOMAIN units /\ units[identifier] = "loaded"

\* identifier in self.units
InUnits(identifier) == identifier \in DOMAIN units

\* Workspace.load_unit(identifier), called by the script on top of the
\* stack (by the main program when the stack is empty), up to the first
\* statement of the unit script.
LoadUnit(stack, identifier) ==
  IF InUnits(identifier)
    THEN Loader(Resume(stack), units, <<>>, <<>>, FALSE)
  ELSE IF identifier \notin UnitFiles
    THEN Propagate(stack, units, <<identifier>>)
  ELSE Loader(<<Frame(identifier, 1)>> \o stack,
              (identifier :> "running") @@ units, <<>>, identifier, FALSE)

\* The top of the stack executes its next statement; a script that has no
\* statement left ends, and the load_unit that ran it returns.
RunStatement(stack) ==
  LET unit   == Head(stack).unit
      script == arg[unit]
      pc     == Head(stack).pc
  IN  IF pc > Len(script)
        THEN Loader(Resume(Tail(stack)), [units EXCEPT ![unit] = "loaded"],
                    <<>>, <<>>, FALSE)
      ELSE IF script[pc].op = "raise"
        THEN Propagate(Tail(stack), DelUnit(units, unit), <<unit>>)
      ELSE LoadUnit(stack, script[pc].identifier)

\* The identifier the statement that the top of the stack executes next
\* calls load_unit for, if it is a load.
LoadedNext(stack) ==
  IF Head(stack).pc <= Len(arg[Head(stack).unit])
    THEN arg[Head(stack).unit][Head(stack).pc].identifier
    ELSE <<>>

\* The record of the load_unit call of the main program and of its state:
\* "running", "returned" or "raised".
MainCall(identifier, l) ==
  [op |-> "load_unit", identifier |-> identifier,
   state |-> IF l.raised THEN "raised"
             ELSE IF l.loading = <<>> THEN "returned" ELSE "running"]

\* A dict that keeps a new key in front of the others.
KeysAfterInFront(keys, l) ==
  (IF l.registered = <<>> THEN <<>> ELSE <<l.registered>>)
    \o SelectSeq(keys, LAMBDA k : k \in DOMAIN l.units)

\* The keys of the dict Workspace.units after a step that leaves the
\* loader in the state l: self.units[identifier] = unit puts the new key
\* after the others, del self.units[identifier] takes a key away.
KeysAfter(keys, l) ==
  SelectSeq(keys, LAMBDA k : k \in DOMAIN l.units)
    \o (IF l.registered = <<>> THEN <<>> ELSE <<l.registered>>)

\* The load_unit calls made so far: the identifiers in the order of the
\* first call for each, and whether a call has raised.
Called(h, called, l) ==
  [first  |-> IF called = <<>> \/ \E i \in DOMAIN h.first : h.first[i] = called
                THEN h.first ELSE Append(h.first, called),
   raised |-> h.raised \/ l.failed # <<>>]

\* The step leaves the loader in the state l: Unit.__init__ of a unit
\* registered in the step sets its aliases, its targets and the macros
\* self and ProjectPath of its context.
LoaderStep(l) ==
  /\ loading' = l.loading
  /\ units' = l.units
  /\ unit_keys' = KeysAfter(unit_keys, l)
  /\ events' = l.failed
  /\ IF l.registered = <<>>
       THEN UNCHANGED <<macros, aliases, targets>>
       ELSE /\ macros' =
                 (create_var(l.registered, N_self) :> TextNode(l.registered))
                 @@ (create_var(l.registered, N_ProjectPath)
                       :> TextNode(ProjectPath(l.registered)))
                 @@ macros
            /\ aliases' = (l.registered :> (N_self :> l.registered)) @@ aliases
            /\ targets' = (l.registered :> <<>>) @@ targets
  /\ UNCHANGED <<env, arg>>

\* The main program calls workspace.load_unit(identifier).
MainLoad(identifier) ==
  /\ loading = <<>>
  /\ LoaderStep(LoadUnit(<<>>, identifier))
  /\ hist' = Called(hist, identifier, LoadUnit(<<>>, identifier))
  /\ out' = MainCall(identifier, LoadUnit(<<>>, identifier))

\* The unit script in execution executes its next statement.
ScriptStep ==
  /\ loading # <<>>
  /\ LoaderStep(RunStatement(loading))
  /\ hist' = Called(hist, LoadedNext(loading), RunStatement(loading))
  /\ out' = MainCall(out.identifier, RunStatement(loading))

NoUnit == [u \in {} |-> <<>>]

\* A new workspace, with the unit scripts that the search path holds.
InitLoad ==
  /\ macros = WorkspaceMacros
  /\ aliases = NoUnit
  /\ env = Environ
  /\ hist = [first |-> <<>>, raised |-> FALSE]
  /\ arg \in [UnitFiles -> ScriptsOfU \cup ScriptsOfV \cup ScriptsOfW]
  /\ arg[U] \in ScriptsOfU
  /\ arg[V] \in ScriptsOfV
  /\ arg[W] \in ScriptsOfW
  /\ out = [op |-> "none", identifier |-> <<>>, state |-> "returned"]
  /\ targets = NoUnit
  /\ events = <<>>
  /\ units = NoUnit
  /\ loading = <<>>
  /\ unit_keys = <<>>

NextLoad ==
  \/ \E identifier \in UnitFiles \cup {X} : MainLoad(identifier)
  \/ ScriptStep

SpecLoad == InitLoad /\ [][NextLoad]_vars

\* The interpreter goes on with a script that is in execution.
SpecLoadRun == SpecLoad /\ WF_vars(ScriptStep)

(***************************************************************************)
(* Claims about the loader, under SpecLoad and SpecLoadRun                 *)
(***************************************************************************)

\* Every script in execution belongs to a unit that is in the units map,
\* and no unit has two scripts in execution.
RunningAreRegistered ==
  /\ \A i \in DOMAIN loading :
       loading[i].unit \in DOMAIN units /\ units[loading[i].unit] = "running"
  /\ \A i, j \in DOMAIN loading : loading[i].unit = loading[j].unit => i = j

\* The statement the script on top of the stack executes next is a load
\* of an identifier that is in the units map.
LoadsRegistered ==
  /\ loading # <<>>
  /\ Head(loading).pc <= Len(arg[Head(loading).unit])
  /\ arg[Head(loading).unit][Head(loading).pc].op = "load"
  /\ arg[Head(loading).unit][Head(loading).pc].identifier \in DOMAIN units

\* C15: a unit is in the units map while its script runs; a load_unit for
\* an identifier in the map, by a script or by the main program, whether
\* the script of that unit has ended or not, returns at once: it changes
\* no entry of the map, starts no script and raises nothing; a script is
\* started only by the step that enters its unit into the map; and every
\* load that is in progress comes to an end.
C15_ReentrantLoad ==
  /\ []RunningAreRegistered
  /\ [][/\ LoadsRegistered =>
             /\ units' = units
             /\ loading' = Resume(loading)
             /\ events' = <<>>
        /\ (loading = <<>> /\ out'.identifier \in DOMAIN units) =>
             /\ units' = units
             /\ loading' = <<>>
             /\ out'.state = "returned"
        /\ Len(loading') > Len(loading) =>
             /\ loading' = <<Frame(Head(loading').unit, 1)>> \o loading
             /\ Head(loading').unit \notin DOMAIN units
             /\ Head(loading').unit \in DOMAIN units']_vars
  /\ (loading # <<>>) ~> (loading = <<>>)

\* U has loaded V, and V has loaded U while the script of U is still in
\* execution: the load has returned and the script of V goes on.
C15_Witness ==
  /\ Len(loading) = 2
  /\ loading[1] = Frame(V, 2)
  /\ loading[2] = Frame(U, 1)
  /\ arg[V][1] = LoadStatement(U, FALSE)
  /\ units[U] = "running"

RECURSIVE NestsConcat(_)
NestsConcat(node) ==
  CASE node.type = "Concat" ->
         \E i \in DOMAIN node.nodes :
           node.nodes[i].type = "Concat" \/ NestsConcat(node.nodes[i])
    [] node.type = "Var" ->
         \E i \in DOMAIN node.args : NestsConcat(node.args[i])
    [] OTHER -> FALSE

\* C26: in every expression tree stored in the workspace context, after
\* any sequence of assignments, no Concat node has a Concat node as a
\* direct child.
C26_NoNestedConcat == \A name \in DOMAIN macros : ~NestsConcat(macros[name])

(***************************************************************************)
(* Claims about the entries and the graph of the targets, under SpecExport *)
(***************************************************************************)

\* C29: every entry that build() or build_each() has appended to the
\* command_data of a target has at least one output, and no export stops
\* at the assertion on the outputs of an entry.
C29_OutputsNotEmpty ==
  /\ \A s \in TargetSlots(targets) :
       \A k \in DOMAIN targets[s[1]][s[2]].command_data :
         targets[s[1]][s[2]].command_data[k].outputs # <<>>
  /\ Exported => out.err # "AssertionError"

(***************************************************************************)
(* Workspaces whose on_setup functions require each other                  *)
(***************************************************************************)

\* def a(): a.requires('b')
S_ab == <<RequiresCall(<<"b">>)>>

\* What the unit scripts of these workspaces register: a with or without
\* a requires('b'), b that requires a, -d that requires U:a, in the unit U
\* or in the unit V, and the task t.
SetupFunctions ==
  {<<U, N_a, S_a>>, <<U, N_a, S_ab>>, <<U, N_b, S_b>>, <<U, N_d, S_d>>,
   <<V, N_d, S_d>>}

SetupTasks == {<<V, N_t>>}

NextSetup ==
  \/ \E f \in SetupFunctions : RegisterTarget(f[1], f[2], f[3])
  \/ \E f \in SetupTasks : RegisterTask(f[1], f[2])
  \/ SetupTargets
  \/ \E u \in Units : \E name \in TargetNames(targets, u) : DoSetup(u, name)
  \/ \E u \in Units : \E name \in TargetNames(targets, u) : Export(u, name)

SpecSetup == InitTargets /\ [][NextSetup]_vars

(***************************************************************************)
(* Claims about setup_targets and requires, under SpecSetup                *)
(***************************************************************************)

\* The number of times the on_setup function of the target was invoked in
\* the latest call
Invocations(log, identifier) ==
  Cardinality({i \in DOMAIN log : log[i].event = "on_setup"
                                  /\ log[i].target = identifier})

\* C21: over a whole run of setup_targets, whatever the on_setup functions
\* require, the on_setup function of each target is invoked at most once.
C21_SetupOnce ==
  out.op = "setup_targets" =>
    \A s \in TargetSlots(targets) :
      Invocations(events,
        TargetIdentifier(s[1], targets[s[1]][s[2]].name)) <= 1

\* The entries of the workspace in the order setup_targets visits them, as
\* <<unit, position in unit.targets>>: the units in the order of
\* Workspace.units, the entries of a unit in the order of their
\* registration.
VisitOrder(ts) ==
  Flatten([k \in DOMAIN UnitOrder |->
             [i \in DOMAIN ts[UnitOrder[k]] |-> <<UnitOrder[k], i>>]])

\* The Targets among them that are not set up
NotSetUp(ts) ==
  SelectSeq(VisitOrder(ts),
            LAMBDA s : /\ ts[s[1]][s[2]].kind = "Target"
                       /\ ~ts[s[1]][s[2]].is_setup)

SlotIdentifier(ts, s) == TargetIdentifier(s[1], ts[s[1]][s[2]].name)

\* The identifiers of the targets whose on_setup function the latest call
\* invoked, in the order of the invocations
SetupCalls(log) ==
  LET calls == SelectSeq(log, LAMBDA e : e.event = "on_setup")
  IN  [p \in DOMAIN calls |-> calls[p].target]

\* The step is a setup_targets call that returned.
SetupTargetsReturned == out'.op = "setup_targets" /\ out'.ok

\* C22: a setup_targets call that returns has left every task and every
\* target that was set up as it was, has set every other Target up by
\* exactly one do_setup, and has made these calls in the order of the
\* units and, within a unit, of the registration: each do_setup is that of
\* the first Target in this order that no do_setup was called on yet, or
\* was asked for through requires by a target whose do_setup began before.
C22_SetupAll ==
  [][SetupTargetsReturned =>
       LET pending == NotSetUp(targets)
           calls   == SetupCalls(events')
           Due(p)  == CHOOSE k \in DOMAIN pending :
                        /\ \A q \in 1..(p - 1) :
                             calls[q] # SlotIdentifier(targets, pending[k])
                        /\ \A j \in 1..(k - 1) : \E q \in 1..(p - 1) :
                             calls[q] = SlotIdentifier(targets, pending[j])
           Required(p) ==
             \E q \in 1..(p - 1) : \E k \in DOMAIN pending :
               /\ calls[q] = SlotIdentifier(targets, pending[k])
               /\ \E d \in DOMAIN
                     targets'[pending[k][1]][pending[k][2]].dependencies :
                    TargetIdentifier(
                      targets'[pending[k][1]][pending[k][2]].dependencies[d][1],
                      targets'[pending[k][1]][pending[k][2]].dependencies[d][2])
                    = calls[p]
       IN  /\ \A u \in Units : Len(targets'[u]) = Len(targets[u])
           /\ \A s \in TargetSlots(targets') : targets'[s[1]][s[2]].is_setup
           /\ \A k \in DOMAIN VisitOrder(targets) :
                LET s == VisitOrder(targets)[k]
                IN  (\A j \in DOMAIN pending : pending[j] # s) =>
                      targets'[s[1]][s[2]] = targets[s[1]][s[2]]
           /\ Len(calls) = Len(pending)
           /\ \A k \in DOMAIN pending : \E p \in DOMAIN calls :
                calls[p] = SlotIdentifier(targets, pending[k])
           /\ \A p \in DOMAIN calls :
                \/ calls[p] = SlotIdentifier(targets, pending[Due(p)])
                \/ Required(p)]_vars

\* A setup_targets call has returned that set up targets of both units,
\* one of the unit U before a target registered ahead of it, in a
\* workspace that has a task.
C22_Witness ==
  /\ out.op = "setup_targets"
  /\ out.ok
  /\ \E u \in Units : \E i \in DOMAIN targets[u] : targets[u][i].kind = "Task"
  /\ \E p \in DOMAIN SetupCalls(events) : SetupCalls(events)[p][1] = "V"
  /\ \E i, j \in DOMAIN targets[U] : \E p, q \in DOMAIN SetupCalls(events) :
       /\ i < j
       /\ q < p
       /\ SetupCalls(events)[p] = SlotIdentifier(targets, <<U, i>>)
       /\ SetupCalls(events)[q] = SlotIdentifier(targets, <<U, j>>)

\* C23: in every state, every target in the dependencies of a target is
\* set up, and no export fails for a dependency that is not: an export
\* that raises RuntimeError is that of a target that is not set up itself.
C23_DependenciesSetUp ==
  /\ \A s \in TargetSlots(targets) :
       \A d \in DOMAIN targets[s[1]][s[2]].dependencies :
         GetTarget(targets, targets[s[1]][s[2]].dependencies[d][1],
                   targets[s[1]][s[2]].dependencies[d][2]).is_setup
  /\ (Exported /\ out.err = "RuntimeError") =>
       ~GetTarget(targets, out.unit, out.name).is_setup

\* A target whose dependency was set up by its requires, ahead of the
\* dependency's turn, has been exported.
C23_Witness ==
  /\ Exported
  /\ out.ok
  /\ \E d \in DOMAIN GetTarget(targets, out.unit, out.name).dependencies :
       LET dep == GetTarget(targets, out.unit, out.name).dependencies[d]
       IN  /\ dep[1] = out.unit
           /\ TargetIndex(targets, out.unit, out.name)
                < TargetIndex(targets, dep[1], dep[2])

\* C27: an export leaves every target as it was (is_setup, dependencies
\* and every entry of the command_data of the target and of its
\* dependencies), and a second export of the same target, right after the
\* first, ends the same way and writes the same statements.
C27_ExportReadsOnly ==
  [][out'.op = "export" =>
       /\ targets' = targets
       /\ (Exported /\ out'.unit = out.unit /\ out'.name = out.name) =>
            /\ out'.ok = out.ok
            /\ out'.err = out.err
            /\ out'.statements = out.statements]_vars

\* A target with entries and with a dependency that has several outputs
\* has been exported, and the order of these outputs in this run is known.
C27_Witness ==
  /\ Exported
  /\ out.ok
  /\ GetTarget(targets, out.unit, out.name).command_data # <<>>
  /\ DependencyOutputs(targets,
       GetTarget(targets, out.unit, out.name).dependencies) \in DOMAIN arg


(***************************************************************************)
(* The names an export writes for the targets of a workspace               *)
(*                                                                         *)
(* arg is a pair of entries of targets, each given by the identifier of    *)
(* its unit, the name of its target and its index in command_data; the     *)
(* unit identifiers and the target names are strings that                  *)
(* validate_identifier accepts.                                            *)
(***************************************************************************)

MaxNameLen == 2

NameChars == {"a", "-", ".", ":"}

\* creator.utils.validate_identifier(identifier):
\* re.match('^[A-Za-z0-9\-\._]+$', identifier)
validate_identifier(identifier) ==
  /\ identifier # <<>>
  /\ \A i \in DOMAIN identifier :
       identifier[i] \in (Letters \cup Digits) \cup {"-", ".", "_"}

ValidNames(n) ==
  {s \in SeqsUpTo(NameChars, n) : validate_identifier(s)}

EntrySlots ==
  [unit : ValidNames(1), name : ValidNames(MaxNameLen), index : 0..1]

\* The rule name and the phony name Target.export writes for an entry
ExportNames(slot) ==
  [rule  |-> ident(TargetIdentifier(slot.unit, slot.name)
                     \o RuleSuffix(slot.index)),
   phony |-> ident(TargetIdentifier(slot.unit, slot.name))]

\* The names written for the two entries of arg
NameEntries ==
  /\ out = <<>>
  /\ out' = <<ExportNames(arg[1]), ExportNames(arg[2])>>
  /\ UNCHANGED <<macros, aliases, env, hist, arg, build_vars, load_vars>>

InitNames ==
  /\ macros = InitMacros
  /\ aliases = InitAliases
  /\ env = Environ
  /\ hist = <<>>
  /\ arg \in EntrySlots \X EntrySlots
  /\ out = <<>>
  /\ InitWorkspace

NextNames == NameEntries

SpecNames == InitNames /\ [][NextNames]_vars

\* C28: the rule names written for two distinct entries (another target or
\* another index) differ, and the phony names written for two distinct
\* targets differ.
C28_NamesUnique ==
  out # <<>> =>
    /\ arg[1] # arg[2] => out[1].rule # out[2].rule
    /\ <<arg[1].unit, arg[1].name>> # <<arg[2].unit, arg[2].name>> =>
         out[1].phony # out[2].phony


(***************************************************************************)
(* Units that load and extend each other                                   *)
(***************************************************************************)

\* ExpressionNode.copy(new_context)
RECURSIVE copy(_, _)
copy(node, new_context) ==
  IF node.type = "Text" THEN TextNode(node.text)
  ELSE IF node.type = "Concat"
  THEN ConcatNode([i \in DOMAIN node.nodes |->
                     copy(node.nodes[i], new_context)])
  ELSE IF node.type = "Var"
  THEN VarNode(node.varname,
               [i \in DOMAIN node.args |-> copy(node.args[i], new_context)],
               new_context)
  ELSE node

\* The keys of UnitContext.items() of the unit identifier, as they are in
\* the workspace context, and the key it yields for each.
ItemKeys(identifier) ==
  {key \in DOMAIN macros : StartsWith(key, create_var(identifier, <<>>))}

ItemKey(identifier, key) ==
  SubSeq(key, Len(create_var(identifier, <<>>)) + 1, Len(key))

\* UnitContext.update(mapping, context_switch=True) on the context of the
\* unit u, mapping being the context of the unit identifier: the macros
\* after it.  The items are listed before the first assignment, and their
\* keys are assigned under distinct names.
UnitContextUpdate(u, identifier) ==
  LET Name(key) == _prepare_name(u, ItemKey(identifier, key))
      Value(name) ==
        copy(macros[CHOOSE key \in ItemKeys(identifier) : Name(key) = name],
             UnitContext(u))
  IN  [name \in DOMAIN macros \cup {Name(key) : key \in ItemKeys(identifier)} |->
         IF \E key \in ItemKeys(identifier) : Name(key) = name
           THEN IF name \in DOMAIN macros
                  THEN substitute(Value(name), name, macros[name])
                  ELSE Value(name)
           ELSE macros[name]]

\* Unit.extends(identifier) in the unit u, for a unit that is loaded
\* already.
Extends(u, identifier) ==
  /\ Len(hist) < MaxCalls
  /\ identifier \in Units
  /\ macros' = UnitContextUpdate(u, identifier)
  /\ hist' = Append(hist, Call("extends", u, <<>>, identifier, NoFrame,
                               Ok(<<>>)))
  /\ UNCHANGED <<aliases, env, arg, out, build_vars, load_vars>>

UnitAliases == {N_lib, N_self}

UnitTexts == {<<"a">>, <<"$","s","e","l","f">>}

NextUnit ==
  \/ \E u \in Units, identifier \in Units, alias \in UnitAliases :
       Load(u, identifier, alias)
  \/ \E u \in Units, identifier \in Units : Extends(u, identifier)
  \/ \E u \in Units, text \in UnitTexts : Define(u, N_x, text)
  \/ \E u \in Units, text \in UnitTexts : Eval(u, text, NoFrame)

SpecUnit == Init /\ [][NextUnit]_vars

\* C25: in every unit, whatever load and extends calls were made,
\* aliases["self"] is the identifier of the unit.
C25_SelfAlias ==
  \A u \in Units : aliases[u][N_self] = u

\* C30: an eval of "$self" in a unit, after calls of load, extends and
\* define none of which names self, returns the identifier of the unit.
C30_SelfValue ==
  (/\ hist # <<>>
   /\ LastCall.op = "eval"
   /\ LastCall.text = <<"$","s","e","l","f">>
   /\ \A i \in 1..(Len(hist) - 1) : hist[i].name # N_self)
    => LastCall.result = Ok(LastCall.unit)


(***************************************************************************)
(* Claims about the order of the units map, under SpecLoad                 *)
(***************************************************************************)

\* The identifiers of the map in the order of the first load_unit call
\* for each
FirstLoadOrder == SelectSeq(hist.first, LAMBDA k : k \in DOMAIN units)

KeyIndex(identifier) ==
  CHOOSE i \in DOMAIN unit_keys : unit_keys[i] = identifier

====
